---- MODULE Spec2Model ----
(***************************************************************************)
(* Model of the Trustpilot review scraper's incremental collection loop   *)
(* (scrape_reviews) and of the pure helpers it calls.                      *)
(*                                                                         *)
(* Strings are sequences of one-character strings, so that split, strip,  *)
(* replace, lower/upper and substring search are computed as Python       *)
(* computes them.  A datetime is an integer count of half days, so that a *)
(* midnight date (an even number) can be compared with a "now" that has a  *)
(* time of day (an odd number).                                            *)
(***************************************************************************)
EXTENDS Integers, Sequences, FiniteSets, TLC

(***************************************************************************)
(* Bounds of the model.                                                    *)
(***************************************************************************)
\* longest page (number of <article> blocks) the page source returns
MaxBlocks == 2
\* highest page number the model lets the loop request
MaxPage == 3

(***************************************************************************)
(* String helpers (Python str methods).                                    *)
(***************************************************************************)
Range(s) == {s[i] : i \in 1..Len(s)}

Min(a, b) == IF a < b THEN a ELSE b

\* s[:n]
Take(s, n) == SubSeq(s, 1, Min(n, Len(s)))

\* s[n:]  (n counted from 0 as in Python)
Drop(s, n) == SubSeq(s, n + 1, Len(s))

StartsWith(s, p) == Len(p) <= Len(s) /\ SubSeq(s, 1, Len(p)) = p

EndsWith(s, p) == Len(p) <= Len(s) /\ SubSeq(s, Len(s) - Len(p) + 1, Len(s)) = p

\* p in s
Contains(s, p) == \E i \in 0..(Len(s) - Len(p)) : SubSeq(s, i + 1, i + Len(p)) = p

\* s.split(c)[0] for a one-character separator c
SplitFirst(s, c) ==
    IF \E i \in 1..Len(s) : s[i] = c
    THEN SubSeq(s, 1, (CHOOSE i \in 1..Len(s) : s[i] = c /\ \A j \in 1..(i - 1) : s[j] # c) - 1)
    ELSE s

IsSpace(c) == c \in {" ", "\t", "\n"}

RECURSIVE LStrip(_)
LStrip(s) == IF s # <<>> /\ IsSpace(s[1]) THEN LStrip(Tail(s)) ELSE s

RECURSIVE RStrip(_)
RStrip(s) == IF s # <<>> /\ IsSpace(s[Len(s)]) THEN RStrip(SubSeq(s, 1, Len(s) - 1)) ELSE s

\* s.strip()
Strip(s) == RStrip(LStrip(s))

\* s.replace(p, "") for a non-empty p: leftmost non-overlapping occurrences
RECURSIVE RemoveAll(_, _)
RemoveAll(s, p) ==
    IF s = <<>> THEN <<>>
    ELSE IF StartsWith(s, p) THEN RemoveAll(Drop(s, Len(p)), p)
    ELSE <<s[1]>> \o RemoveAll(Tail(s), p)

LowerAlpha == <<"a","b","c","d","e","f","g","h","i","j","k","l","m",
                "n","o","p","q","r","s","t","u","v","w","x","y","z">>

UpperAlpha == <<"A","B","C","D","E","F","G","H","I","J","K","L","M",
                "N","O","P","Q","R","S","T","U","V","W","X","Y","Z">>

ToLower == [c \in Range(UpperAlpha) |-> LowerAlpha[CHOOSE i \in 1..26 : UpperAlpha[i] = c]]

ToUpper == [c \in Range(LowerAlpha) |-> UpperAlpha[CHOOSE i \in 1..26 : LowerAlpha[i] = c]]

LowerChar(c) == IF c \in DOMAIN ToLower THEN ToLower[c] ELSE c

UpperChar(c) == IF c \in DOMAIN ToUpper THEN ToUpper[c] ELSE c

\* s.lower()
Lower(s) == [i \in 1..Len(s) |-> LowerChar(s[i])]

\* s.upper()
Upper(s) == [i \in 1..Len(s) |-> UpperChar(s[i])]

(***************************************************************************)
(* Python's None for the optional values the loop handles.                 *)
(***************************************************************************)
\* None where a string is expected (extract_review_permalink found no link)
NoneStr == <<"None">>

\* truthiness of an optional string: None and "" are falsy
TruthyStr(s) == s # NoneStr /\ s # <<>>

\* None where an int is expected (max_pages, months not given)
NoneInt == [isNone |-> TRUE, v |-> 0]

SomeInt(n) == [isNone |-> FALSE, v |-> n]

\* truthiness of an optional int: None and 0 are falsy
TruthyInt(o) == ~o.isNone /\ o.v # 0

(***************************************************************************)
(* Identity keyer.                                                         *)
(***************************************************************************)
\* a canonical form that strips before it cuts the fragment and the query
canonical_link_strip_first(href) ==
    IF ~TruthyStr(href) THEN <<>>
    ELSE SplitFirst(SplitFirst(Strip(href), "#"), "?")

canonical_link(href) ==
    IF ~TruthyStr(href) THEN <<>>
    ELSE Strip(SplitFirst(SplitFirst(href, "#"), "?"))

\* hashlib.sha256(x).hexdigest(), taken to be injective: the digest stands
\* for the message it was computed from
sha256(msg) == <<"sha256">> \o msg

\* a keyer that does not look at the link
stable_review_key_hash_only(reviewer, date_str, link, text) ==
    <<"h","a","s","h",":",":">>
    \o sha256(Strip(reviewer) \o <<"|">> \o Strip(date_str) \o <<"|">> \o Strip(text))

\* a keyer that keys on the link as it was extracted
stable_review_key_raw_link(reviewer, date_str, link, text) ==
    IF TruthyStr(link)
    THEN <<"l","i","n","k",":",":">> \o link
    ELSE <<"h","a","s","h",":",":">>
         \o sha256(Strip(reviewer) \o <<"|">> \o Strip(date_str) \o <<"|">> \o Strip(text))

stable_review_key(reviewer, date_str, link, text) ==
    LET link_key == canonical_link(link)
    IN  IF link_key # <<>>
        THEN <<"l","i","n","k",":",":">> \o link_key
        ELSE <<"h","a","s","h",":",":">>
             \o sha256(Strip(reviewer) \o <<"|">> \o Strip(date_str) \o <<"|">> \o Strip(text))

(***************************************************************************)
(* Dates.  A day is an integer; a datetime is twice the day plus 1 when it *)
(* carries a time of day.  Iso(d) is the "%Y-%m-%d" text of day d and      *)
(* Loose(d) another text of the same day that strptime also accepts (such  *)
(* as "2024-1-5" for "2024-01-05").                                        *)
(***************************************************************************)
\* the day on which the session starts
Today == 100

Days == (Today - 70)..Today

Iso(d) == <<"D", ToString(d)>>

Loose(d) == <<"D", "0", ToString(d)>>

\* the texts that strptime accepts, with the day each one denotes
DateTexts ==
    [s \in {Iso(d) : d \in Days} \cup {Loose(d) : d \in Days} |->
        CHOOSE d \in Days : s \in {Iso(d), Loose(d)}]

\* datetime.strptime(s, "%Y-%m-%d"): ok = FALSE stands for the ValueError
strptime(s) ==
    IF s \in DOMAIN DateTexts
    THEN [ok |-> TRUE, dt |-> 2 * DateTexts[s]]
    ELSE [ok |-> FALSE, dt |-> 0]

\* dt.strftime("%Y-%m-%d")
strftime(dt) == Iso(dt \div 2)

\* timedelta(days = n)
timedelta(n) == 2 * n

(***************************************************************************)
(* The markup of one <article> block, as far as the extractors read it:    *)
(*   name     text of the consumer-name span, NoneStr when it is absent    *)
(*   ps       texts of the <p> elements of the block                       *)
(*   main     index in ps of the review-text paragraph, 0 when absent      *)
(*   href     href of the /reviews/ anchor, NoneStr when absent            *)
(*   datetime datetime attribute of <time>, NoneStr when absent            *)
(***************************************************************************)
Block(name, text, href, dt) ==
    [name |-> name, ps |-> <<text>>, main |-> 1, href |-> href, datetime |-> dt]

extract_reviewer_name(block) ==
    IF block.name # NoneStr /\ Strip(block.name) # <<>>
    THEN Strip(block.name)
    ELSE <<"U","n","k","n","o","w","n">>

extract_review_permalink(block) == block.href

SeeMore == <<"S","e","e"," ","m","o","r","e">>

\* max(texts, key=len): the first of the longest elements
Longest(texts) ==
    texts[CHOOSE i \in 1..Len(texts) :
            /\ \A j \in 1..Len(texts) : Len(texts[j]) <= Len(texts[i])
            /\ \A j \in 1..(i - 1) : Len(texts[j]) < Len(texts[i])]

RECURSIVE StrippedTexts(_, _)
StrippedTexts(ps, skipTeaser) ==
    IF ps = <<>> THEN <<>>
    ELSE LET t == Strip(ps[1])
         IN  (IF t # <<>> /\ ~(skipTeaser /\ EndsWith(t, SeeMore)) THEN <<t>> ELSE <<>>)
             \o StrippedTexts(Tail(ps), skipTeaser)

\* sortingapp/app/scrape_reviews.py
extract_review_text(block) ==
    IF block.main # 0 THEN Strip(block.ps[block.main])
    ELSE LET texts == StrippedTexts(block.ps, TRUE)
         IN  IF texts # <<>> THEN Longest(texts) ELSE <<>>

\* trustpilot_scraper_dupefix.py
extract_review_text_dupefix(block) ==
    LET texts == StrippedTexts(block.ps, FALSE)
    IN  IF texts # <<>> THEN Longest(texts) ELSE <<>>

(***************************************************************************)
(* Run configuration (the parameters of scrape_reviews) and the values it  *)
(* derives from them before the loop.                                      *)
(***************************************************************************)
VARIABLES
    src,                        \* the page source: pool, extra, last
    cfg,                        \* variant, mode, max_pages, months, keywords,
                                \* start_date, end_date, resume, resume_file,
                                \* prior (the file resume loads), now
    cutoff_date,                \* optional datetime
    start_dt,                   \* optional datetime
    end_dt,                     \* optional datetime
    keyword_and,                \* AND terms
    keyword_or,                 \* OR terms
    reviews,                    \* the accepted sequence
    seen_keys,                  \* the dedup set
    page,                       \* page cursor
    attempt,                    \* loop variable of the retry loop
    blocks,                     \* <article> blocks of the page just loaded
    consecutive_no_additions,
    previous_page_signature,    \* optional tuple of links
    same_page_signature_count,
    page_added,
    page_links_for_signature,
    page_all_older_than_cutoff,
    should_stop,
    interrupted,
    pc,                         \* position of scrape_reviews
    snapshot,                   \* what the session's results files hold
    requested,                  \* history: page numbers handed to driver.get
    outcomes,                   \* history: results of driver.get for this page
    zero_streak,                \* history: pages in a row that added nothing
    loaded,                     \* history: number of records loaded on resume
    last_signature,             \* history: signature of the page requested last,
                                \* none when its fetch failed
    signature_repeated,         \* history: some page had the signature of the
                                \* page before it
    stop_reason,                \* history: which break or exception ended the loop
    args,                       \* the arguments of a keyer function called on
                                \* its own, <<>> in a session
    rets,                       \* what the calls made with args returned
    tool,                       \* dedupe_results.py: the file it works on, its
                                \* .bak, the position and the locals of a run
    loader                      \* sortingapp/app/main.py: MODEL_CACHE, the frames
                                \* of load_model and the call that is served

session == <<src, cfg, cutoff_date, start_dt, end_dt, keyword_and, keyword_or, reviews, seen_keys, page, attempt, blocks,
          consecutive_no_additions, previous_page_signature,
          same_page_signature_count, page_added, page_links_for_signature,
          page_all_older_than_cutoff, should_stop, interrupted, pc, snapshot,
          requested, outcomes, zero_streak, loaded, last_signature,
          signature_repeated, stop_reason>>

vars == <<session, args, rets, tool, loader>>

max_retries == 3

max_consecutive_no_additions == 3

\* page_links_for_signature[:20]
SignatureLinks == 20

\* timedelta(days=30 * months)
DaysPerMonth == 30

NoneDt == [isNone |-> TRUE, v |-> 0]

SomeDt(dt) == [isNone |-> FALSE, v |-> dt]

NoneSig == [isNone |-> TRUE, v |-> <<>>]

SomeSig(sig) == [isNone |-> FALSE, v |-> sig]

\* start_dt / end_dt: strptime of the parameter when it is given
OptDate(date_param) ==
    IF TruthyStr(date_param) THEN SomeDt(strptime(date_param).dt) ELSE NoneDt

IsAndKeyword(k) == StartsWith(k, <<"+">>) \/ Contains(Upper(k), <<"A","N","D">>)

AndTerm(k) == Strip(RemoveAll(RemoveAll(k, <<"+">>), <<"A","N","D">>))

RECURSIVE KeywordAnd(_)
KeywordAnd(keywords) ==
    IF keywords = <<>> THEN <<>>
    ELSE LET k == Strip(keywords[1])
         IN  (IF IsAndKeyword(k) THEN <<AndTerm(k)>> ELSE <<>>) \o KeywordAnd(Tail(keywords))

RECURSIVE KeywordOr(_)
KeywordOr(keywords) ==
    IF keywords = <<>> THEN <<>>
    ELSE LET k == Strip(keywords[1])
         IN  (IF IsAndKeyword(k) THEN <<>> ELSE <<k>>) \o KeywordOr(Tail(keywords))

\* k.lower() in text.lower()
Matches(k, text) == Contains(Lower(text), Lower(k))

\* a keyword filter in which a failed OR test rejects whatever the AND terms
KeywordFilter_or_always_needed(keywords, kw_and, kw_or, text) ==
    LET and_ok == ~(kw_and # <<>> /\ ~(\A i \in 1..Len(kw_and) : Matches(kw_and[i], text)))
        or_ok  == ~(kw_or # <<>> /\ ~(\E i \in 1..Len(kw_or) : Matches(kw_or[i], text)))
    IN  IF keywords = <<>> THEN TRUE ELSE and_ok /\ or_ok

\* the add_review flag of the keyword filter
KeywordFilter(keywords, kw_and, kw_or, text) ==
    LET and_ok == ~(kw_and # <<>> /\ ~(\A i \in 1..Len(kw_and) : Matches(kw_and[i], text)))
        or_ok  == ~(kw_or # <<>> /\ ~(\E i \in 1..Len(kw_or) : Matches(kw_or[i], text)))
    IN  IF keywords = <<>> THEN TRUE
        ELSE IF or_ok THEN and_ok
        ELSE IF kw_and = <<>> THEN FALSE ELSE and_ok

(***************************************************************************)
(* One iteration of "for i, block in enumerate(blocks)".  st carries the   *)
(* locals the iteration updates.                                           *)
(***************************************************************************)
IsDupefix == cfg.variant = "dupefix"

ReviewText(block) ==
    IF IsDupefix THEN extract_review_text_dupefix(block) ELSE extract_review_text(block)

\* a date extraction that falls back on the day of the session
ReviewDate_defaulting_to_today(block) ==
    IF block.datetime = NoneStr \/ ~strptime(SplitFirst(block.datetime, "T")).ok
    THEN [ok |-> TRUE, dt |-> 2 * Today]
    ELSE strptime(SplitFirst(block.datetime, "T"))

\* the try block around the <time> element: ok = FALSE when it raises
ReviewDate(block) ==
    IF block.datetime = NoneStr THEN [ok |-> FALSE, dt |-> 0]
    ELSE strptime(SplitFirst(block.datetime, "T"))

\* review_link or ""
OrEmpty(link) == IF TruthyStr(link) THEN link ELSE <<>>

\* the dict appended to reviews
Review(reviewer, review_date, review_link, text) ==
    [reviewer |-> reviewer, date |-> strftime(review_date),
     link |-> canonical_link(review_link), text |-> text]

BlockKey(reviewer, review_date, review_link, text) ==
    stable_review_key(reviewer, strftime(review_date), OrEmpty(review_link), text)

\* review_date >= cutoff_date, when there is a cutoff
NotOlder(review_date) == ~cutoff_date.isNone /\ review_date >= cutoff_date.v

\* review_date < start_dt, when there is a start date
BeforeStart(review_date) == ~start_dt.isNone /\ review_date < start_dt.v

\* an end date that is itself outside the range
AfterEnd_on_end_day_too(review_date) == ~end_dt.isNone /\ review_date >= end_dt.v

\* review_date > end_dt, when there is an end date
AfterEnd(review_date) == ~end_dt.isNone /\ review_date > end_dt.v

\* not text or text.endswith("See more")
IsTeaser(text) == text = <<>> \/ EndsWith(text, SeeMore)

ProcessBlock(st, block) ==
    LET reviewer    == extract_reviewer_name(block)
        text        == ReviewText(block)
        review_link == extract_review_permalink(block)
        st1         == IF TruthyStr(review_link)
                       THEN [st EXCEPT !.links = Append(@, canonical_link(review_link))]
                       ELSE st
        parsed      == ReviewDate(block)
        review_date == parsed.dt
        st2         == IF NotOlder(review_date)
                       THEN [st1 EXCEPT !.all_older = FALSE]
                       ELSE st1
        key         == BlockKey(reviewer, review_date, review_link, text)
    IN  IF ~IsDupefix /\ IsTeaser(text) THEN st
        ELSE IF ~parsed.ok THEN st1
        ELSE IF ~IsDupefix /\ BeforeStart(review_date) THEN st2
        ELSE IF ~IsDupefix /\ AfterEnd(review_date) THEN st2
        ELSE IF ~KeywordFilter(cfg.keywords, keyword_and, keyword_or, text) THEN st2
        ELSE IF key \in st2.seen THEN st2
        ELSE [st2 EXCEPT !.seen = @ \cup {key},
                         !.reviews = Append(@, Review(reviewer, review_date, review_link, text)),
                         !.added = @ + 1]

\* (the test on nxt has the iteration evaluated before the next one starts)
RECURSIVE ProcessBlocks(_, _)
ProcessBlocks(st, bs) ==
    IF bs = <<>> THEN st
    ELSE LET nxt == ProcessBlock(st, bs[1])
         IN  IF nxt.added >= 0 THEN ProcessBlocks(nxt, Tail(bs)) ELSE st

\* a seeding that keeps the stored links themselves
SeedKeys_raw_links(rs) == {rs[i].link : i \in 1..Len(rs)}

\* the keys computed from the records loaded on resume
RECURSIVE SeedKeys(_)
SeedKeys(rs) ==
    IF rs = <<>> THEN {}
    ELSE {stable_review_key(rs[1].reviewer, rs[1].date, rs[1].link, rs[1].text)}
         \cup SeedKeys(Tail(rs))

\* load_previous_reviews: the stored list, or [] when the file is missing
\* (json.load raises on a file that does not parse; the files a session
\* resumes from parse)
load_previous_reviews(file) == IF file.exists THEN file.reviews ELSE <<>>

NoFile == [exists |-> FALSE, parses |-> FALSE, reviews |-> <<>>]

File(rs) == [exists |-> TRUE, parses |-> TRUE, reviews |-> rs]

\* open(json_file, "w"): results.json exists and is empty until json.dump
\* has written it
open_w == [exists |-> TRUE, parses |-> FALSE, reviews |-> <<>>]

\* a save that writes the newest record first
save_reviews_newest_first(rs) == File([k \in 1..Len(rs) |-> rs[Len(rs) + 1 - k]])

\* save_reviews: the files are rewritten with the whole list
save_reviews(rs) == File(rs)

(***************************************************************************)
(* The inputs of the model: what a page of the source may hold, per mode.  *)
(***************************************************************************)
Ann == <<" ","A","n","n"," ">>

Bob == <<"B","o","b">>

LinkA == <<"/","r","e","v","i","e","w","s","/","a">>

\* the same review as LinkA, with a query string and a fragment
LinkAQ == <<"/","r","e","v","i","e","w","s","/","a","?","p","=","1","#","x">>

LinkB == <<"/","r","e","v","i","e","w","s","/","b">>

LinkC == <<"/","r","e","v","i","e","w","s","/","c">>

\* an href that is not empty but whose canonical form is
LinkQ == <<"?","r","=","/","r","e","v","i","e","w","s","/","q">>

TxtRefund == <<"R","e","f","u","n","d"," ","o","n","l","y">>

TxtSlow == <<"s","o"," ","S","L","O","W">>

TxtOk == <<"o","k">>

TxtTeaser == <<"r","e","f","u","n","d"," ","s","l","o","w"," ","S","e","e"," ","m","o","r","e">>

\* the datetime attribute of day d, with its time part
Stamp(d) == Iso(d) \o <<"T","0","9",":","0","0">>

\* two blocks of one review (same canonical link, other reviewer and body)
\* and a block without a link
PoolPages ==
    << Block(Ann, TxtRefund, LinkA, Stamp(Today)),
       Block(Bob, TxtSlow, LinkAQ, Loose(Today)),
       Block(NoneStr, TxtRefund, NoneStr, Stamp(Today)) >>

\* a block inside the window, one on the cutoff day, one before
\* it (without a usable link), one whose date does not parse
PoolMonths ==
    << Block(Ann, TxtRefund, LinkA, Stamp(Today - DaysPerMonth + 1)),
       Block(Bob, TxtSlow, LinkB, Stamp(Today - DaysPerMonth)),
       Block(Ann, TxtRefund, LinkQ, Stamp(Today - DaysPerMonth - 1)),
       Block(Bob, TxtSlow, LinkC, <<"n","/","a">>) >>

\* blocks without a permalink, of two reviewers and two bodies
PoolLinkless ==
    << Block(Ann, TxtRefund, NoneStr, Stamp(Today)),
       Block(Bob, TxtSlow, NoneStr, Stamp(Today)),
       Block(Bob, TxtRefund, NoneStr, Stamp(Today)) >>

\* bodies that match different terms, a block without a link and
\* a teaser
PoolKeywords ==
    << Block(Ann, TxtRefund, LinkA, Stamp(Today)),
       Block(Bob, TxtSlow, LinkB, Stamp(Today)),
       Block(Ann, TxtOk, NoneStr, Stamp(Today)),
       Block(Bob, TxtTeaser, LinkC, Stamp(Today)) >>

RangeStart == Today - 20

RangeEnd == Today - 10

\* the day before the range, its first and last day, the day after
PoolDates ==
    << Block(Ann, TxtRefund, LinkA, Stamp(RangeStart - 1)),
       Block(Bob, TxtSlow, LinkB, Stamp(RangeStart)),
       Block(Ann, TxtOk, NoneStr, Loose(RangeEnd)),
       Block(Bob, TxtSlow, LinkC, Stamp(RangeEnd + 1)) >>

\* a dated block, a block without <time> element and a linkless block whose
\* date does not parse
PoolUndated ==
    << Block(Ann, TxtRefund, LinkA, Stamp(Today)),
       Block(Bob, TxtSlow, LinkB, NoneStr),
       Block(Ann, TxtOk, NoneStr, <<"n","/","a">>) >>

\* a block with a body, a block whose paragraphs are empty and a linkless
\* block with a body
PoolBodies ==
    << Block(Ann, TxtRefund, LinkA, Stamp(Today)),
       Block(Bob, <<" ">>, LinkB, Stamp(Today)),
       Block(Ann, TxtOk, NoneStr, Stamp(Today)) >>

SeqsUpTo(set, n) == UNION {[1..k -> set] : k \in 0..n}

\* a page of SignatureLinks blocks of one review followed by block b
LongPage(b) == [i \in 1..(SignatureLinks + 1) |-> IF i <= SignatureLinks THEN PoolPages[1] ELSE b]

\* two pages that differ only after the first SignatureLinks blocks
LongPages == {LongPage(PoolPages[1]), LongPage(Block(Bob, TxtSlow, LinkB, Stamp(Today)))}

\* a page source: the blocks its pages are made of, further whole pages it
\* may return, and the last page number the model lets the loop request
Source(pool, extra, last) == [pool |-> pool, extra |-> extra, last |-> last]

\* the pages the source may return
Pages == SeqsUpTo(Range(src.pool), MaxBlocks) \cup src.extra

\* what a block is stored as when it is accepted
Stored(block) ==
    Review(extract_reviewer_name(block), ReviewDate(block).dt,
           extract_review_permalink(block), extract_review_text(block))

\* prior snapshots: the first n blocks of the pool as an earlier session
\* stored them (blocks without a date are never stored)
RECURSIVE StoredAll(_)
StoredAll(bs) ==
    IF bs = <<>> THEN <<>>
    ELSE (IF ReviewDate(bs[1]).ok THEN <<Stored(bs[1])>> ELSE <<>>) \o StoredAll(Tail(bs))

\* f"{base_url}&sort=recency&page={page}"
PageUrl(n) == <<"p","a","g","e","=", ToString(n)>>

\* the record trustpilot_scraper.py appends for a block (lines 199-240): the
\* link as extracted, the page url for a block without link
OriginalStored(block, url) ==
    LET href == extract_review_permalink(block)
    IN  [reviewer |-> extract_reviewer_name(block),
         date     |-> strftime(ReviewDate(block).dt),
         link     |-> IF TruthyStr(href) THEN href ELSE url,
         text     |-> extract_review_text_dupefix(block)]

\* pool blocks 1 and 2 as a session of trustpilot_scraper.py stored them from
\* its first page into europcar_reviews_<stamp>.json
OriginalSnapshot(pool) == <<OriginalStored(pool[1], PageUrl(1)), OriginalStored(pool[2], PageUrl(1))>>

\* the records of pool blocks 1 and 3: one keyed by link, one by hash
PriorSnapshot(pool) == StoredAll(<<pool[1], pool[3]>>)

KeywordSets ==
    { <<<<"+","r","e","f","u","n","d">>, <<"s","l","o","w">>>>,
      <<<<"s","l","o","w">>, <<"O","K"," ">>>>,
      <<<<" ","o","n","l","y"," ","A","N","D">>>> }

Configs ==
    [variant : {"app", "dupefix"}, mode : {1}, max_pages : {NoneInt, SomeInt(0), SomeInt(1), SomeInt(2)},
     months : {NoneInt}, keywords : {<<>>}, start_date : {NoneStr}, end_date : {NoneStr}]
    \cup
    [variant : {"app", "dupefix"}, mode : {2}, max_pages : {NoneInt},
     months : {SomeInt(0), SomeInt(1)}, keywords : {<<>>}, start_date : {NoneStr}, end_date : {NoneStr}]
    \cup
    [variant : {"app", "dupefix"}, mode : {3}, max_pages : {NoneInt},
     months : {NoneInt}, keywords : KeywordSets, start_date : {NoneStr}, end_date : {NoneStr}]
    \cup
    [variant : {"app"}, mode : {4}, max_pages : {NoneInt},
     months : {NoneInt}, keywords : {<<>>}, start_date : {Iso(RangeStart)}, end_date : {Iso(RangeEnd)}]

(***************************************************************************)
(* scrape_reviews: the state before the loop.                              *)
(***************************************************************************)
\* datetime.now() at the start of the session: midnight or later in the day
Nows == {2 * Today, 2 * Today + 1}

\* trustpilot_scraper.py: seen_links = {r["link"] for r in reviews}
SeedLinks(rs) == {rs[i].link : i \in 1..Len(rs)}

\* the resume_file argument: not given, or a path and the file at it
NoPath == [given |-> FALSE, file |-> NoFile]

Path(file) == [given |-> TRUE, file |-> file]

\* the file a resumed session loads: resume_file when it exists, else the
\* newest results file the glob finds (NoFile: it finds none); the dupefix
\* script has no resume_file and takes the newest
source_json(variant, resume_file, newest) ==
    IF variant = "app" /\ resume_file.given /\ resume_file.file.exists
    THEN resume_file.file
    ELSE newest

InitCfg(source, c, resume, resume_file, newest, now) ==
    /\ src = source
    /\ cfg = [variant |-> c.variant, mode |-> c.mode, max_pages |-> c.max_pages,
              months |-> c.months, keywords |-> c.keywords,
              start_date |-> c.start_date, end_date |-> c.end_date,
              resume |-> resume, resume_file |-> resume_file,
              prior |-> source_json(c.variant, resume_file, newest), now |-> now]
    /\ cutoff_date = IF TruthyInt(c.months)
                     THEN SomeDt(now - timedelta(DaysPerMonth * c.months.v))
                     ELSE NoneDt
    /\ start_dt = OptDate(c.start_date)
    /\ end_dt = OptDate(c.end_date)
    /\ keyword_and = KeywordAnd(c.keywords)
    /\ keyword_or = KeywordOr(c.keywords)
    /\ LET prior == source_json(c.variant, resume_file, newest)
       IN  /\ reviews = IF resume THEN load_previous_reviews(prior) ELSE <<>>
           /\ seen_keys = IF ~resume THEN {}
                          ELSE IF c.variant = "original"
                          THEN SeedLinks(load_previous_reviews(prior))
                          ELSE SeedKeys(load_previous_reviews(prior))
           /\ loaded = IF resume THEN Len(load_previous_reviews(prior)) ELSE 0
    /\ last_signature = NoneSig
    /\ signature_repeated = FALSE
    /\ page = 1
    /\ attempt = 0
    /\ blocks = <<>>
    /\ consecutive_no_additions = 0
    /\ previous_page_signature = NoneSig
    /\ same_page_signature_count = 0
    /\ page_added = 0
    /\ page_links_for_signature = <<>>
    /\ page_all_older_than_cutoff = FALSE
    /\ should_stop = FALSE
    /\ interrupted = FALSE
    /\ pc = "top"
    /\ snapshot = NoFile
    /\ requested = <<>>
    /\ outcomes = <<>>
    /\ zero_streak = 0
    /\ stop_reason = "none"

\* a fresh session, a resumed one that finds no prior file, and a resumed
\* one that finds the prior snapshot, the newest results file, at resume_file
Fresh == <<FALSE, NoPath, NoFile>>

ResumeMissing == <<TRUE, NoPath, NoFile>>

Resumed(pool) == <<TRUE, Path(File(PriorSnapshot(pool))), File(PriorSnapshot(pool))>>

\* a resumed session in a directory whose newest results file was written by
\* trustpilot_scraper.py (the glob of line 213 takes europcar_reviews_*.json)
ResumedOriginal(pool) == <<TRUE, NoPath, File(OriginalSnapshot(pool))>>

\* a resumed session whose resume_file does not exist, in a directory that
\* holds the results of an earlier session
ResumeFileMissing(pool) == <<TRUE, Path(NoFile), File(PriorSnapshot(pool))>>

\* a resumed session whose resume_file does not exist, in a directory
\* without results
ResumeFileMissingAlone == <<TRUE, Path(NoFile), NoFile>>

Starts(pool) == {Fresh, ResumeMissing, Resumed(pool)}

\* keys of MODEL_CONFIGS
ModelTypes == {"fast", "balanced", "precise"}

\* main.py is not imported
NoLoader == [phase |-> "off", MODEL_CACHE |-> {}, stack |-> <<>>, caller |-> "none",
             model_type |-> "none", model |-> "none", outcome |-> "none", calls |-> 0,
             built |-> [t \in ModelTypes |-> 0]]

\* the dedupe tool is not run
NoTool == [path |-> NoFile, bak |-> NoFile, pc |-> "idle", rows |-> <<>>, runs |-> 0,
           backup |-> FALSE, backups_on |-> TRUE]

InitFrom(source, configs, starts, nows) ==
    /\ \E c \in configs : \E s \in starts : \E now \in nows :
            InitCfg(source, c, s[1], s[2], s[3], now)
    /\ args = <<>>
    /\ rets = <<>>
    /\ tool = NoTool
    /\ loader = NoLoader

Midday == {2 * Today + 1}

SrcPages == Source(PoolPages, {}, MaxPage)

SrcMonths == Source(PoolMonths, {}, MaxPage)

SrcKeywords == Source(PoolKeywords, {}, MaxPage)

SrcDates == Source(PoolDates, {}, MaxPage)

Init ==
    \/ InitFrom(SrcPages, {c \in Configs : c.mode = 1}, Starts(PoolPages), Midday)
    \/ InitFrom(SrcMonths, {c \in Configs : c.mode = 2}, Starts(PoolMonths), Nows)
    \/ InitFrom(SrcKeywords, {c \in Configs : c.mode = 3}, Starts(PoolKeywords), Midday)
    \/ InitFrom(SrcDates, {c \in Configs : c.mode = 4}, Starts(PoolDates), Midday)

\* the canonical links of the records of a page (its blocks, in the app
\* variant without the teaser cards) that have a link, and the page signature
RECURSIVE LinksOf(_)
LinksOf(pg) ==
    IF pg = <<>> THEN <<>>
    ELSE LET link == extract_review_permalink(pg[1])
         IN  (IF TruthyStr(link) /\ (IsDupefix \/ ~IsTeaser(ReviewText(pg[1])))
              THEN <<canonical_link(link)>> ELSE <<>>)
             \o LinksOf(Tail(pg))

SignatureOf(pg) == Take(LinksOf(pg), SignatureLinks)

(***************************************************************************)
(* scrape_reviews: the loop.                                               *)
(***************************************************************************)
Bounded == cfg.mode = 1 /\ TruthyInt(cfg.max_pages)

\* while True: the page-limit check, then the first attempt of the retry loop
LoopTop ==
    /\ pc = "top"
    /\ IF Bounded /\ page > cfg.max_pages.v
       THEN /\ pc' = "finally"
            /\ stop_reason' = "limit"
            /\ UNCHANGED <<attempt, outcomes>>
       ELSE /\ page <= src.last
            /\ pc' = "fetch"
            /\ attempt' = 1
            /\ outcomes' = <<>>
            /\ UNCHANGED stop_reason
    /\ UNCHANGED <<args, rets, tool, loader, src, cfg, cutoff_date, start_dt, end_dt, keyword_and, keyword_or,
                   reviews, seen_keys, page, blocks,
                   consecutive_no_additions, previous_page_signature,
                   same_page_signature_count, page_added, page_links_for_signature,
                   page_all_older_than_cutoff, should_stop, interrupted, snapshot,
                   requested, zero_streak, loaded, last_signature,
                   signature_repeated>>

\* driver.get(url) returns: the page is loaded, the retry loop is left
FetchOk ==
    /\ pc = "fetch"
    /\ requested' = IF attempt = 1 THEN Append(requested, page) ELSE requested
    /\ outcomes' = Append(outcomes, "ok")
    /\ pc' = "extract"
    /\ UNCHANGED <<args, rets, tool, loader, src, cfg, cutoff_date, start_dt, end_dt, keyword_and, keyword_or,
                   reviews, seen_keys, page, attempt, blocks,
                   consecutive_no_additions, previous_page_signature,
                   same_page_signature_count, page_added, page_links_for_signature,
                   page_all_older_than_cutoff, should_stop, interrupted, snapshot,
                   zero_streak, loaded, last_signature,
                   signature_repeated, stop_reason>>

\* a retry loop that gives up the session after the last failed attempt
FetchFail_giving_up ==
    /\ pc = "fetch"
    /\ requested' = IF attempt = 1 THEN Append(requested, page) ELSE requested
    /\ outcomes' = Append(outcomes, "failed")
    /\ IF attempt = max_retries
       THEN /\ pc' = "finally"
            /\ stop_reason' = "fetch_error"
            /\ UNCHANGED attempt
       ELSE /\ attempt' = attempt + 1
            /\ UNCHANGED <<pc, stop_reason>>
    /\ UNCHANGED <<args, rets, tool, loader, src, cfg, cutoff_date, start_dt, end_dt, keyword_and, keyword_or,
                   reviews, seen_keys, page, blocks,
                   consecutive_no_additions, previous_page_signature,
                   same_page_signature_count, page_added, page_links_for_signature,
                   page_all_older_than_cutoff, should_stop, interrupted, snapshot,
                   zero_streak, loaded, last_signature, signature_repeated>>

\* a skip that leaves the page cursor where it is
FetchFail_same_page ==
    /\ pc = "fetch"
    /\ requested' = IF attempt = 1 THEN Append(requested, page) ELSE requested
    /\ outcomes' = Append(outcomes, "failed")
    /\ IF attempt = max_retries
       THEN /\ page' = page
            /\ pc' = "top"
            /\ zero_streak' = zero_streak + 1
            /\ UNCHANGED attempt
       ELSE /\ attempt' = attempt + 1
            /\ UNCHANGED <<page, pc, zero_streak>>
    /\ last_signature' = (IF attempt = max_retries THEN NoneSig ELSE last_signature)
    /\ UNCHANGED <<args, rets, tool, loader, src, cfg, cutoff_date, start_dt, end_dt, keyword_and, keyword_or,
                   reviews, seen_keys, blocks,
                   consecutive_no_additions, previous_page_signature,
                   same_page_signature_count, page_added, page_links_for_signature,
                   page_all_older_than_cutoff, should_stop, interrupted, snapshot,
                   loaded, signature_repeated, stop_reason>>

\* driver.get(url) raises WebDriverException: next attempt, or after the
\* last one url = None, page += 1, continue
FetchFail ==
    /\ pc = "fetch"
    /\ requested' = IF attempt = 1 THEN Append(requested, page) ELSE requested
    /\ outcomes' = Append(outcomes, "failed")
    /\ IF attempt = max_retries
       THEN /\ page' = page + 1
            /\ pc' = "top"
            /\ zero_streak' = zero_streak + 1
            /\ UNCHANGED attempt
       ELSE /\ attempt' = attempt + 1
            /\ UNCHANGED <<page, pc, zero_streak>>
    /\ last_signature' = (IF attempt = max_retries THEN NoneSig ELSE last_signature)
    /\ UNCHANGED <<args, rets, tool, loader, src, cfg, cutoff_date, start_dt, end_dt, keyword_and, keyword_or,
                   reviews, seen_keys, blocks,
                   consecutive_no_additions, previous_page_signature,
                   same_page_signature_count, page_added, page_links_for_signature,
                   page_all_older_than_cutoff, should_stop, interrupted, snapshot,
                   loaded, signature_repeated, stop_reason>>

\* blocks = driver.find_elements(...) finds no <article>
NoBlocks ==
    /\ pc = "extract"
    /\ blocks' = <<>>
    /\ page' = page + 1
    /\ consecutive_no_additions' = consecutive_no_additions + 1
    /\ zero_streak' = zero_streak + 1
    /\ IF ~Bounded /\ consecutive_no_additions' >= max_consecutive_no_additions
       THEN pc' = "finally" /\ stop_reason' = "no_content"
       ELSE pc' = "top" /\ UNCHANGED stop_reason
    /\ outcomes' = <<>>
    /\ last_signature' = SomeSig(<<>>)
    /\ signature_repeated' = (signature_repeated \/ last_signature = SomeSig(<<>>))
    /\ UNCHANGED <<args, rets, tool, loader, src, cfg, cutoff_date, start_dt, end_dt, keyword_and, keyword_or,
                   reviews, seen_keys, attempt,
                   previous_page_signature, same_page_signature_count, page_added,
                   page_links_for_signature, page_all_older_than_cutoff,
                   should_stop, interrupted, snapshot, requested, loaded>>

\* the loop over the blocks of the page
ProcessPage ==
    /\ pc = "extract"
    /\ \E pg \in Pages \ {<<>>} :
        LET st == ProcessBlocks([reviews |-> reviews, seen |-> seen_keys, added |-> 0,
                                 links |-> <<>>, all_older |-> ~cutoff_date.isNone],
                                pg)
        IN /\ blocks' = pg
           /\ reviews' = st.reviews
           /\ seen_keys' = st.seen
           /\ page_added' = st.added
           /\ page_links_for_signature' = st.links
           /\ page_all_older_than_cutoff' = st.all_older
    /\ pc' = "save"
    /\ outcomes' = <<>>
    /\ UNCHANGED <<args, rets, tool, loader, src, cfg, cutoff_date, start_dt, end_dt, keyword_and, keyword_or,
                   page, attempt, consecutive_no_additions,
                   previous_page_signature, same_page_signature_count, should_stop,
                   interrupted, snapshot, requested, zero_streak, loaded, last_signature,
                   signature_repeated,
                   stop_reason>>

\* save_reviews(reviews, ...) after the page, up to the opening of
\* results.json: results.csv is written, results.json is truncated
OpenJson ==
    /\ pc = "save"
    /\ snapshot' = open_w
    /\ pc' = "dump"
    /\ UNCHANGED <<args, rets, tool, loader, src, cfg, cutoff_date, start_dt, end_dt, keyword_and, keyword_or,
                   reviews, seen_keys, page, attempt, blocks,
                   consecutive_no_additions, previous_page_signature,
                   same_page_signature_count, page_added, page_links_for_signature,
                   page_all_older_than_cutoff, should_stop, interrupted, requested,
                   outcomes, zero_streak, loaded, last_signature,
                   signature_repeated, stop_reason>>

\* save_reviews(reviews, ...) after the page, from json.dump on
SavePage ==
    /\ pc = "dump"
    /\ snapshot' = save_reviews(reviews)
    /\ pc' = "decide"
    /\ UNCHANGED <<args, rets, tool, loader, src, cfg, cutoff_date, start_dt, end_dt, keyword_and, keyword_or,
                   reviews, seen_keys, page, attempt, blocks,
                   consecutive_no_additions, previous_page_signature,
                   same_page_signature_count, page_added, page_links_for_signature,
                   page_all_older_than_cutoff, should_stop, interrupted, requested,
                   outcomes, zero_streak, loaded, last_signature,
                   signature_repeated, stop_reason>>

\* the stopping rules with the PageLimit rule applied to a bounded limit too
ShouldStop_also_when_bounded(mode, max_pages, cutoff, all_older, added, no_additions, same_count) ==
    CASE mode = 1 ->
            same_count >= 1 \/ no_additions >= max_consecutive_no_additions
      [] mode = 2 ->
            \/ (~cutoff.isNone /\ all_older /\ (added = 0 \/ no_additions >= 1))
            \/ same_count >= 1
      [] mode = 3 ->
            no_additions >= max_consecutive_no_additions \/ same_count >= 1
      [] OTHER -> FALSE

\* stopping rules that know the repeated page only
ShouldStop_on_repeat_only(mode, max_pages, cutoff, all_older, added, no_additions, same_count) ==
    CASE mode = 1 ->
            ~TruthyInt(max_pages) /\ same_count >= 1
      [] mode = 2 ->
            \/ (~cutoff.isNone /\ all_older /\ (added = 0 \/ no_additions >= 1))
            \/ same_count >= 1
      [] mode = 3 ->
            same_count >= 1
      [] OTHER -> FALSE

\* the mode-specific stopping rules, from the counters already updated
ShouldStop(mode, max_pages, cutoff, all_older, added, no_additions, same_count) ==
    CASE mode = 1 ->
            /\ ~TruthyInt(max_pages)
            /\ (same_count >= 1 \/ no_additions >= max_consecutive_no_additions)
      [] mode = 2 ->
            \/ (~cutoff.isNone /\ all_older /\ (added = 0 \/ no_additions >= 1))
            \/ same_count >= 1
      [] mode = 3 ->
            no_additions >= max_consecutive_no_additions \/ same_count >= 1
      [] OTHER -> FALSE

\* page signature, no-addition counter and the stop decision
Decide ==
    /\ pc = "decide"
    /\ LET page_signature == Take(page_links_for_signature, SignatureLinks)
       IN  /\ same_page_signature_count' =
                IF ~previous_page_signature.isNone /\ page_signature = previous_page_signature.v
                THEN same_page_signature_count + 1
                ELSE 0
           /\ previous_page_signature' = SomeSig(page_signature)
    /\ consecutive_no_additions' = IF page_added = 0 THEN consecutive_no_additions + 1 ELSE 0
    /\ zero_streak' = IF page_added = 0 THEN zero_streak + 1 ELSE 0
    /\ should_stop' = ShouldStop(cfg.mode, cfg.max_pages, cutoff_date,
                                 page_all_older_than_cutoff, page_added,
                                 consecutive_no_additions', same_page_signature_count')
    /\ pc' = "advance"
    /\ last_signature' = SomeSig(SignatureOf(blocks))
    /\ signature_repeated' =
            (signature_repeated \/ last_signature = SomeSig(SignatureOf(blocks)))
    /\ UNCHANGED <<args, rets, tool, loader, src, cfg, cutoff_date, start_dt, end_dt, keyword_and, keyword_or,
                   reviews, seen_keys, page, attempt, blocks,
                   page_added, page_links_for_signature, page_all_older_than_cutoff,
                   interrupted, snapshot, requested, outcomes, loaded, stop_reason>>

\* page += 1, then break if should_stop.  The locals of the iteration are
\* dead from here on (each is assigned again before it is read): they are
\* put back to their first values.
Advance ==
    /\ pc = "advance"
    /\ page' = page + 1
    /\ IF should_stop
       THEN pc' = "finally" /\ stop_reason' = "end_of_results"
       ELSE pc' = "top" /\ UNCHANGED stop_reason
    /\ blocks' = <<>>
    /\ page_added' = 0
    /\ page_links_for_signature' = <<>>
    /\ page_all_older_than_cutoff' = FALSE
    /\ should_stop' = FALSE
    /\ UNCHANGED <<args, rets, tool, loader, src, cfg, cutoff_date, start_dt, end_dt, keyword_and, keyword_or,
                   reviews, seen_keys, attempt,
                   consecutive_no_additions, previous_page_signature,
                   same_page_signature_count, interrupted, snapshot,
                   requested, outcomes, zero_streak, loaded, last_signature,
                   signature_repeated>>

\* an interrupt that ends the session without the persist of `finally`
Interrupt_skipping_finally ==
    /\ pc \in {"top", "fetch", "extract", "save", "dump", "decide", "advance"}
    /\ interrupted' = TRUE
    /\ stop_reason' = "interrupt"
    /\ pc' = "done"
    /\ UNCHANGED <<args, rets, tool, loader, src, cfg, cutoff_date, start_dt, end_dt, keyword_and, keyword_or,
                   reviews, seen_keys, page, attempt, blocks,
                   consecutive_no_additions, previous_page_signature,
                   same_page_signature_count, page_added, page_links_for_signature,
                   page_all_older_than_cutoff, should_stop, snapshot, requested,
                   outcomes, zero_streak, loaded, last_signature,
                   signature_repeated>>

\* KeyboardInterrupt raised inside the try block
Interrupt ==
    /\ pc \in {"top", "fetch", "extract", "save", "dump", "decide", "advance"}
    /\ interrupted' = TRUE
    /\ stop_reason' = "interrupt"
    /\ pc' = "finally"
    /\ UNCHANGED <<args, rets, tool, loader, src, cfg, cutoff_date, start_dt, end_dt, keyword_and, keyword_or,
                   reviews, seen_keys, page, attempt, blocks,
                   consecutive_no_additions, previous_page_signature,
                   same_page_signature_count, page_added, page_links_for_signature,
                   page_all_older_than_cutoff, should_stop, snapshot, requested,
                   outcomes, zero_streak, loaded, last_signature,
                   signature_repeated>>

\* KeyboardInterrupt raised inside the loop over the blocks, after the
\* first n blocks of the page have been processed
InterruptInPage ==
    /\ pc = "extract"
    /\ \E pg \in Pages \ {<<>>} : \E n \in 1..(Len(pg) - 1) :
        LET st == ProcessBlocks([reviews |-> reviews, seen |-> seen_keys, added |-> 0,
                                 links |-> <<>>, all_older |-> ~cutoff_date.isNone],
                                Take(pg, n))
        IN /\ blocks' = pg
           /\ reviews' = st.reviews
           /\ seen_keys' = st.seen
           /\ page_added' = st.added
           /\ page_links_for_signature' = st.links
           /\ page_all_older_than_cutoff' = st.all_older
    /\ interrupted' = TRUE
    /\ stop_reason' = "interrupt"
    /\ pc' = "finally"
    /\ UNCHANGED <<args, rets, tool, loader, src, cfg, cutoff_date, start_dt, end_dt, keyword_and, keyword_or,
                   page, attempt, consecutive_no_additions,
                   previous_page_signature, same_page_signature_count, should_stop,
                   snapshot, requested, outcomes, zero_streak, loaded, last_signature,
                   signature_repeated>>

\* an exception other than KeyboardInterrupt raised while the page is
\* extracted: by driver.find_elements (no block processed) or by a field
\* read of a block, after the first n blocks of the page have been
\* processed (a WebDriverException other than NoSuchElementException, such
\* as a stale element reference); no except clause of the loop takes it
ExtractError ==
    /\ pc = "extract"
    /\ \E pg \in Pages : \E n \in 0..(IF pg = <<>> THEN 0 ELSE Len(pg) - 1) :
        LET st == ProcessBlocks([reviews |-> reviews, seen |-> seen_keys, added |-> 0,
                                 links |-> <<>>, all_older |-> ~cutoff_date.isNone],
                                Take(pg, n))
        IN /\ blocks' = pg
           /\ reviews' = st.reviews
           /\ seen_keys' = st.seen
           /\ page_added' = st.added
           /\ page_links_for_signature' = st.links
           /\ page_all_older_than_cutoff' = st.all_older
    /\ stop_reason' = "error"
    /\ pc' = "finally"
    /\ UNCHANGED <<args, rets, tool, loader, src, cfg, cutoff_date, start_dt, end_dt, keyword_and, keyword_or,
                   page, attempt, consecutive_no_additions, interrupted,
                   previous_page_signature, same_page_signature_count, should_stop,
                   snapshot, requested, outcomes, zero_streak, loaded, last_signature,
                   signature_repeated>>

\* a failed save after the page that is logged, the loop going on
SaveFail_swallowed ==
    /\ pc \in {"save", "dump"}
    /\ stop_reason' = "error"
    /\ pc' = "decide"
    /\ UNCHANGED <<args, rets, tool, loader, src, cfg, cutoff_date, start_dt, end_dt, keyword_and, keyword_or,
                   reviews, seen_keys, page, attempt, blocks,
                   consecutive_no_additions, previous_page_signature,
                   same_page_signature_count, page_added, page_links_for_signature,
                   page_all_older_than_cutoff, should_stop, interrupted, snapshot,
                   requested, outcomes, zero_streak, loaded, last_signature,
                   signature_repeated>>

\* save_reviews after the page raises (OSError): before results.json is
\* opened or while it is written
SaveFail ==
    /\ pc \in {"save", "dump"}
    /\ stop_reason' = "error"
    /\ pc' = "finally"
    /\ UNCHANGED <<args, rets, tool, loader, src, cfg, cutoff_date, start_dt, end_dt, keyword_and, keyword_or,
                   reviews, seen_keys, page, attempt, blocks,
                   consecutive_no_additions, previous_page_signature,
                   same_page_signature_count, page_added, page_links_for_signature,
                   page_all_older_than_cutoff, should_stop, interrupted, snapshot,
                   requested, outcomes, zero_streak, loaded, last_signature,
                   signature_repeated>>

\* save_reviews in `finally` raises: its exception leaves scrape_reviews
FinalSaveFail ==
    /\ pc \in {"finally", "final_dump"}
    /\ stop_reason' = "error"
    /\ pc' = "raised"
    /\ UNCHANGED <<args, rets, tool, loader, src, cfg, cutoff_date, start_dt, end_dt, keyword_and, keyword_or,
                   reviews, seen_keys, page, attempt, blocks,
                   consecutive_no_additions, previous_page_signature,
                   same_page_signature_count, page_added, page_links_for_signature,
                   page_all_older_than_cutoff, should_stop, interrupted, snapshot,
                   requested, outcomes, zero_streak, loaded, last_signature,
                   signature_repeated>>

\* finally: driver.quit(), save_reviews(reviews, ...) up to the opening of
\* results.json
OpenJsonFinal ==
    /\ pc = "finally"
    /\ snapshot' = open_w
    /\ pc' = "final_dump"
    /\ UNCHANGED <<args, rets, tool, loader, src, cfg, cutoff_date, start_dt, end_dt, keyword_and, keyword_or,
                   reviews, seen_keys, page, attempt, blocks,
                   consecutive_no_additions, previous_page_signature,
                   same_page_signature_count, page_added, page_links_for_signature,
                   page_all_older_than_cutoff, should_stop, interrupted, requested,
                   outcomes, zero_streak, loaded, last_signature,
                   signature_repeated, stop_reason>>

\* finally: save_reviews(reviews, ...) from json.dump on; then return reviews,
\* or let the exception that ended the loop leave scrape_reviews
Finally ==
    /\ pc = "final_dump"
    /\ snapshot' = save_reviews(reviews)
    /\ pc' = IF stop_reason = "error" THEN "raised" ELSE "done"
    /\ UNCHANGED <<args, rets, tool, loader, src, cfg, cutoff_date, start_dt, end_dt, keyword_and, keyword_or,
                   reviews, seen_keys, page, attempt, blocks,
                   consecutive_no_additions, previous_page_signature,
                   same_page_signature_count, page_added, page_links_for_signature,
                   page_all_older_than_cutoff, should_stop, interrupted, requested,
                   outcomes, zero_streak, loaded, last_signature,
                   signature_repeated, stop_reason>>

Next ==
    \/ LoopTop
    \/ FetchOk
    \/ FetchFail
    \/ NoBlocks
    \/ ProcessPage
    \/ OpenJson
    \/ SavePage
    \/ Decide
    \/ Advance
    \/ Interrupt
    \/ InterruptInPage
    \/ OpenJsonFinal
    \/ Finally

Spec == Init /\ [][Next]_vars

(***************************************************************************)
(* trustpilot_scraper.py, the first script: it deduplicates on the link as *)
(* extracted (the page url for a block without link), rejects records      *)
(* older than the cutoff, and has no stopping rule but the page limit.     *)
(***************************************************************************)
\* one iteration of the loop over the blocks (lines 199-240)
OriginalProcessBlock(st, block, url) ==
    LET reviewer    == extract_reviewer_name(block)
        text        == extract_review_text_dupefix(block)
        href        == extract_review_permalink(block)
        review_link == IF TruthyStr(href) THEN href ELSE url
        parsed      == ReviewDate(block)
        review_date == parsed.dt
        st1         == [st EXCEPT !.seen = @ \cup {review_link}]
    IN  IF ~parsed.ok THEN st
        ELSE IF ~cutoff_date.isNone /\ review_date < cutoff_date.v THEN st
        ELSE IF review_link \in st.seen THEN st
        ELSE IF ~KeywordFilter(cfg.keywords, keyword_and, keyword_or, text) THEN st1
        ELSE [st1 EXCEPT !.reviews = Append(@, OriginalStored(block, url)),
                         !.added = @ + 1]

RECURSIVE OriginalProcessBlocks(_, _, _)
OriginalProcessBlocks(st, bs, url) ==
    IF bs = <<>> THEN st
    ELSE LET nxt == OriginalProcessBlock(st, bs[1], url)
         IN  IF nxt.added >= 0 THEN OriginalProcessBlocks(nxt, Tail(bs), url) ELSE st

\* no blocks: page += 1; continue (lines 190-195)
OriginalNoBlocks ==
    /\ pc = "extract"
    /\ blocks' = <<>>
    /\ page' = page + 1
    /\ pc' = "top"
    /\ outcomes' = <<>>
    /\ UNCHANGED <<args, rets, tool, loader, src, cfg, cutoff_date, start_dt, end_dt, keyword_and, keyword_or,
                   reviews, seen_keys, attempt, consecutive_no_additions,
                   previous_page_signature, same_page_signature_count, page_added,
                   page_links_for_signature, page_all_older_than_cutoff,
                   should_stop, interrupted, snapshot, requested, zero_streak, loaded,
                   last_signature, signature_repeated, stop_reason>>

\* the loop over the blocks of the page
OriginalProcessPage ==
    /\ pc = "extract"
    /\ \E pg \in Pages \ {<<>>} :
        LET st == OriginalProcessBlocks([reviews |-> reviews, seen |-> seen_keys, added |-> 0],
                                        pg, PageUrl(page))
        IN /\ blocks' = pg
           /\ reviews' = st.reviews
           /\ seen_keys' = st.seen
           /\ page_added' = st.added
    /\ pc' = "save"
    /\ outcomes' = <<>>
    /\ UNCHANGED <<args, rets, tool, loader, src, cfg, cutoff_date, start_dt, end_dt, keyword_and, keyword_or,
                   page, attempt, consecutive_no_additions,
                   previous_page_signature, same_page_signature_count,
                   page_links_for_signature, page_all_older_than_cutoff, should_stop,
                   interrupted, snapshot, requested, zero_streak, loaded, last_signature,
                   signature_repeated, stop_reason>>

\* after save_reviews: page += 1 (lines 244-246)
OriginalAdvance ==
    /\ pc = "decide"
    /\ page' = page + 1
    /\ pc' = "top"
    /\ blocks' = <<>>
    /\ page_added' = 0
    /\ UNCHANGED <<args, rets, tool, loader, src, cfg, cutoff_date, start_dt, end_dt, keyword_and, keyword_or,
                   reviews, seen_keys, attempt, consecutive_no_additions,
                   previous_page_signature, same_page_signature_count,
                   page_links_for_signature, page_all_older_than_cutoff, should_stop,
                   interrupted, snapshot, requested, outcomes, zero_streak, loaded,
                   last_signature, signature_repeated, stop_reason>>

NextOriginal ==
    \/ LoopTop
    \/ FetchOk
    \/ FetchFail
    \/ OriginalNoBlocks
    \/ OriginalProcessPage
    \/ OpenJson
    \/ SavePage
    \/ OriginalAdvance
    \/ Interrupt
    \/ OpenJsonFinal
    \/ Finally

\* the loop in an environment where element reads and file writes may raise
NextWithFaults ==
    \/ Next
    \/ ExtractError
    \/ SaveFail
    \/ FinalSaveFail

\* PageLimit sessions, bounded and unbounded
SpecPages ==
    InitFrom(SrcPages, {c \in Configs : c.mode = 1 /\ c.variant = "app"},
             Starts(PoolPages), Midday)
    /\ [][Next]_vars

\* sessions over pages that repeat a review: both scraper variants without a
\* filter, and the app variant with a keyword filter that lets only some
\* blocks pass
DedupConfigs ==
    {c \in Configs :
        \/ (c.mode = 1 /\ c.max_pages = NoneInt)
        \/ (c.mode = 3 /\ c.variant = "app" /\ Len(c.keywords) = 2 /\ c.keywords[1][1] = "+")}

SpecDedup ==
    InitFrom(Source(PoolPages, {}, MaxPage), DedupConfigs,
             {Fresh, Resumed(PoolPages)}, Midday)
    /\ [][Next]_vars

\* PageLimit sessions with a bounded limit of 1 .. MaxPage + 1 pages over a
\* source of MaxPage + 1 pages of two blocks that share one link
BoundedConfigs ==
    {[c EXCEPT !.max_pages = SomeInt(n)] :
        c \in {d \in Configs : d.mode = 1 /\ d.variant = "app" /\ d.max_pages = NoneInt},
        n \in 1..(MaxPage + 1)}

SpecLimit ==
    InitFrom(Source(SubSeq(PoolPages, 1, 2), {}, MaxPage + 1), BoundedConfigs,
             {Fresh, Resumed(PoolPages)}, Midday)
    /\ [][Next]_vars

\* MonthsBack sessions of both variants, of 0 and 1 months, started at
\* midnight or later in the day
SpecMonths ==
    InitFrom(SrcMonths, {c \in Configs : c.mode = 2},
             {Fresh, Resumed(PoolMonths)}, Nows)
    /\ [][Next]_vars

\* MonthsBack sessions of one month, started at midnight
Midnight == {2 * Today}

SpecCutoff ==
    InitFrom(SrcMonths, {c \in Configs : c.mode = 2 /\ c.months = SomeInt(1)},
             {Fresh, Resumed(PoolMonths)}, Midnight)
    /\ [][Next]_vars

\* Keywords sessions of both variants with each of the keyword sets
SpecKeywords ==
    InitFrom(SrcKeywords, {c \in Configs : c.mode = 3},
             {Fresh, Resumed(PoolKeywords)}, Midday)
    /\ [][Next]_vars

\* unbounded PageLimit sessions of both variants over pages with undated
\* blocks
SpecUndated ==
    InitFrom(Source(PoolUndated, {}, MaxPage),
             {c \in Configs : c.mode = 1 /\ c.max_pages = NoneInt},
             {Fresh, Resumed(PoolUndated)}, Midday)
    /\ [][Next]_vars

\* unbounded PageLimit sessions of both variants over pages with a block
\* that has no body
SpecBodies ==
    InitFrom(Source(PoolBodies, {}, MaxPage),
             {c \in Configs : c.mode = 1 /\ c.max_pages = NoneInt},
             {Fresh, Resumed(PoolBodies)}, Midday)
    /\ [][Next]_vars

\* unbounded PageLimit sessions of the app whose element reads and file
\* writes may raise
SpecFaults ==
    InitFrom(SrcPages,
             {c \in Configs : c.mode = 1 /\ c.variant = "app" /\ c.max_pages = NoneInt},
             {Fresh, Resumed(PoolPages)}, Midday)
    /\ [][NextWithFaults]_vars

\* resumed unbounded PageLimit sessions of the app: resume_file exists, or
\* does not, with and without results of an earlier session around
SpecResume ==
    InitFrom(SrcPages,
             {c \in Configs : c.mode = 1 /\ c.variant = "app" /\ c.max_pages = NoneInt},
             {Resumed(PoolPages), ResumeFileMissing(PoolPages), ResumeFileMissingAlone},
             Midday)
    /\ [][Next]_vars

\* Keywords sessions of trustpilot_scraper.py
OriginalConfigs ==
    {[c EXCEPT !.variant = "original"] : c \in {d \in Configs : d.mode = 3 /\ d.variant = "app"}}

SpecOriginal ==
    InitFrom(SrcKeywords, OriginalConfigs, {Fresh, Resumed(PoolKeywords)}, Midday)
    /\ [][NextOriginal]_vars

\* sessions that resume from the file of an earlier script
SpecLegacy ==
    InitFrom(SrcPages,
             {c \in Configs : c.mode = 1 /\ c.variant = "app" /\ c.max_pages = NoneInt},
             {Fresh, Resumed(PoolPages), ResumedOriginal(PoolPages)}, Midday)
    /\ [][Next]_vars

\* sessions that add records behind the ones they resumed from
SpecAppend ==
    InitFrom(SrcKeywords,
             {c \in Configs : c.mode = 1 /\ c.variant = "app" /\ c.max_pages = NoneInt},
             {Fresh, Resumed(PoolKeywords)}, Midday)
    /\ [][Next]_vars

\* Keywords sessions of trustpilot_scraper.py over blocks without permalink
SpecLinkless ==
    InitFrom(Source(PoolLinkless, {}, MaxPage), OriginalConfigs, {Fresh, ResumeMissing}, Midday)
    /\ [][NextOriginal]_vars

\* DateRange sessions
SpecDates ==
    InitFrom(SrcDates, {c \in Configs : c.mode = 4}, Starts(PoolDates), Midday)
    /\ [][Next]_vars

(***************************************************************************)
(* What the properties say about a block of a page.                        *)
(***************************************************************************)
\* the record a block is stored as by the running variant
StoredAs(block) ==
    Review(extract_reviewer_name(block), ReviewDate(block).dt,
           extract_review_permalink(block), ReviewText(block))

\* the block passes date parsing and the filters: it is accepted when no
\* record has been seen before it
Passes(block) ==
    ProcessBlock([reviews |-> <<>>, seen |-> {}, added |-> 0, links |-> <<>>,
                  all_older |-> TRUE], block).added = 1

CanonOf(block) == canonical_link(extract_review_permalink(block))

\* the least index of a passing block of the page with canonical link l
FirstWithLink(pg, l) ==
    CHOOSE m \in 1..Len(pg) :
        /\ Passes(pg[m]) /\ CanonOf(pg[m]) = l
        /\ \A n \in 1..(m - 1) : ~(Passes(pg[n]) /\ CanonOf(pg[n]) = l)

(***************************************************************************)
(* C1: of the records that pass date parsing and the filters and have the  *)
(* same non-empty canonical link, only the first one encountered in the    *)
(* session is appended to the accepted sequence (none when a record with   *)
(* that link is already there), on one page or across pages, whatever      *)
(* their reviewer and body.                                                *)
(***************************************************************************)
NoTwoWithLink ==
    \A i, j \in 1..Len(reviews) :
        (i < j /\ reviews[i].link # <<>>) => reviews[i].link # reviews[j].link

C1_Step ==
    (pc = "extract" /\ pc' = "save") =>
        \A i \in 1..Len(blocks') :
            LET l   == CanonOf(blocks'[i])
                new == {k \in (Len(reviews) + 1)..Len(reviews') : reviews'[k].link = l}
            IN  (Passes(blocks'[i]) /\ l # <<>>) =>
                    IF \E k \in 1..Len(reviews) : reviews[k].link = l
                    THEN new = {}
                    ELSE /\ Cardinality(new) = 1
                         /\ \A k \in new : reviews'[k] = StoredAs(blocks'[FirstWithLink(blocks', l)])

C1_FirstOfLinkOnly == [](NoTwoWithLink) /\ [][C1_Step]_vars

\* a page with two passing blocks of one link, other reviewer and body, of
\* which the first was appended
C1_Witness ==
    /\ pc = "save"
    /\ Len(blocks) = 2
    /\ Passes(blocks[1]) /\ Passes(blocks[2])
    /\ CanonOf(blocks[1]) # <<>> /\ CanonOf(blocks[1]) = CanonOf(blocks[2])
    /\ StoredAs(blocks[1]).reviewer # StoredAs(blocks[2]).reviewer
    /\ StoredAs(blocks[1]).text # StoredAs(blocks[2]).text
    /\ page_added = 1
    /\ reviews[Len(reviews)] = StoredAs(blocks[1])

(***************************************************************************)
(* C2: in a session resumed from a snapshot, a page all of whose records   *)
(* are records of the snapshot (same canonical link, ISO date, reviewer    *)
(* and body) appends nothing, for records keyed by link and by hash.       *)
(***************************************************************************)
ReExtracted(block) ==
    ReviewDate(block).ok /\ StoredAs(block) \in Range(cfg.prior.reviews)

C2_ResumeAddsNothing ==
    (/\ pc = "save"
     /\ cfg.resume /\ cfg.prior.exists
     /\ \A i \in 1..Len(blocks) : ReExtracted(blocks[i]))
    => page_added = 0

\* the page yields exactly the two records of the snapshot, one with a link
\* and one without
C2_Witness ==
    /\ pc = "save"
    /\ cfg.resume /\ cfg.prior.exists
    /\ Len(cfg.prior.reviews) = 2
    /\ \E r \in Range(cfg.prior.reviews) : r.link # <<>>
    /\ \E r \in Range(cfg.prior.reviews) : r.link = <<>>
    /\ \A i \in 1..Len(blocks) : ReExtracted(blocks[i])
    /\ {StoredAs(blocks[i]) : i \in 1..Len(blocks)} = Range(cfg.prior.reviews)
    /\ page_added = 0

(***************************************************************************)
(* C3: in PageLimit mode with a bounded limit n >= 1 the loop requests     *)
(* exactly the pages 1..n in order and then stops, whatever the pages      *)
(* hold and whichever fetches fail: page n+1 is never requested and the    *)
(* loop is not left before page n by a starvation or signature rule (only  *)
(* a KeyboardInterrupt ends the session earlier).                          *)
(***************************************************************************)
InOrder(pages) == \A i \in 1..Len(pages) : pages[i] = i

C3_Requested ==
    (Bounded /\ cfg.max_pages.v >= 1) =>
        /\ InOrder(requested)
        /\ Len(requested) <= cfg.max_pages.v
        /\ stop_reason \in {"none", "limit", "interrupt", "error"}
        /\ pc = "top" => page = Len(requested) + 1
        /\ pc \in {"fetch", "extract", "save", "dump", "decide", "advance"} => stop_reason = "none"
        /\ (pc \in {"finally", "final_dump", "done"} /\ ~interrupted /\ stop_reason # "error") =>
                /\ Len(requested) = cfg.max_pages.v
                /\ stop_reason = "limit"

C3_Step ==
    (Bounded /\ cfg.max_pages.v >= 1 /\ pc = "top") =>
        IF Len(requested) = cfg.max_pages.v
        THEN pc' = "finally" /\ requested' = requested
        ELSE pc' = "finally" => interrupted'

C3_ExactlyOneToN == [](C3_Requested) /\ [][C3_Step]_vars

\* a session of MaxPage + 1 pages that ended at the limit although the
\* starvation count and the signature repeat were both reached on the way
C3_Witness ==
    /\ pc = "done" /\ stop_reason = "limit"
    /\ cfg.max_pages = SomeInt(MaxPage + 1)
    /\ Len(requested) = MaxPage + 1
    /\ consecutive_no_additions >= max_consecutive_no_additions
    /\ same_page_signature_count >= 1

(***************************************************************************)
(* C4: in unbounded PageLimit, MonthsBack and Keywords modes, whenever two *)
(* consecutive pages N and N+1 have equal page signatures (the same        *)
(* sequence of first-20 canonical links) the loop stops after page N+1 and *)
(* never requests page N+2; so a session over a source whose page 2        *)
(* repeats page 1 ends after page 2.  Stated on the history of the         *)
(* signatures: once a page had the signature of the page before it, the    *)
(* loop is on its way out and no further page is requested.                *)
(***************************************************************************)
StopsOnRepeat ==
    \/ (cfg.mode = 1 /\ ~TruthyInt(cfg.max_pages))
    \/ cfg.mode \in {2, 3}

C4_StopsOnEqualSignatures ==
    (StopsOnRepeat /\ signature_repeated) =>
        /\ pc \in {"advance", "finally", "final_dump", "done", "raised"}
        /\ pc = "advance" => should_stop

(***************************************************************************)
(* C5: at every termination decision consecutive_no_additions is the       *)
(* number of immediately preceding consecutive pages, the current one      *)
(* included, that added no record (zero_streak counts them: pages without  *)
(* blocks, pages that added nothing, pages that could not be fetched); in  *)
(* unbounded PageLimit and Keywords modes, without a signature repeat, the *)
(* loop stops exactly when that count reaches 3.                           *)
(***************************************************************************)
StopsAtThree ==
    \/ (cfg.mode = 1 /\ ~TruthyInt(cfg.max_pages))
    \/ cfg.mode = 3

C5_CounterIsZeroStreak ==
    pc = "advance" =>
        /\ consecutive_no_additions = zero_streak
        /\ (StopsAtThree /\ same_page_signature_count = 0) =>
                (should_stop <=> zero_streak >= max_consecutive_no_additions)

(***************************************************************************)
(* C6: a page whose fetch fails on all retry attempts increments           *)
(* consecutive_no_additions as a page with zero records does, and in       *)
(* unbounded PageLimit and Keywords modes the third consecutive such page  *)
(* stops the loop.                                                         *)
(***************************************************************************)
C6_Step ==
    (pc = "fetch" /\ page' # page) =>
        /\ consecutive_no_additions' = consecutive_no_additions + 1
        /\ (StopsAtThree /\ consecutive_no_additions' >= max_consecutive_no_additions) =>
                pc' = "finally"

C6_FailedPageCounts == [][C6_Step]_vars

(***************************************************************************)
(* C7: for every page the loop makes between 1 and 3 fetch attempts:       *)
(* attempt k+1 is made only after attempt k failed, no attempt follows a   *)
(* successful one, and after a third failure the error is not passed on to *)
(* the caller: the page cursor advances by one and the run continues with  *)
(* the next page.                                                          *)
(***************************************************************************)
AllFailed(os) == \A i \in 1..Len(os) : os[i] = "failed"

C7_Attempts ==
    /\ Len(outcomes) <= max_retries
    /\ pc = "fetch" => (attempt = Len(outcomes) + 1 /\ AllFailed(outcomes))
    /\ pc = "extract" =>
            /\ Len(outcomes) = attempt /\ attempt >= 1
            /\ outcomes[attempt] = "ok"
            /\ AllFailed(SubSeq(outcomes, 1, attempt - 1))
    /\ stop_reason \in {"none", "limit", "no_content", "end_of_results", "interrupt", "error"}

C7_Step ==
    /\ (pc = "fetch" /\ pc' = "extract") => UNCHANGED <<page, attempt>>
    /\ (pc = "fetch" /\ outcomes' = Append(outcomes, "failed")) =>
            IF Len(outcomes') = max_retries
            THEN page' = page + 1 /\ pc' = "top" /\ stop_reason' = "none"
            ELSE page' = page /\ pc' = "fetch" /\ attempt' = attempt + 1
    /\ (pc = "top" /\ pc' = "fetch") => (attempt' = 1 /\ outcomes' = <<>>)

C7_OneToThreeAttempts == [](C7_Attempts) /\ [][C7_Step]_vars

\* the three attempts of page 1 have failed and the loop is back at its top
\* with the cursor on page 2
C7_Witness ==
    /\ pc = "top" /\ page = 2
    /\ outcomes = <<"failed", "failed", "failed">>
    /\ requested = <<1>>
    /\ stop_reason = "none" /\ ~interrupted

(***************************************************************************)
(* C8: in MonthsBack(n) mode the cutoff is the start time of the session   *)
(* minus 30*n days, fixed for the whole session, and no record extracted   *)
(* during the session whose date is earlier than that cutoff is appended   *)
(* to the accepted sequence.                                               *)
(***************************************************************************)
\* the datetime of a stored record
DateOf(r) == strptime(r.date).dt

MonthsCutoff == cfg.now - timedelta(DaysPerMonth * cfg.months.v)

C8_NoneOlderThanCutoff ==
    cfg.mode = 2 =>
        \A k \in (loaded + 1)..Len(reviews) : DateOf(reviews[k]) >= MonthsCutoff

(***************************************************************************)
(* C9: in MonthsBack mode the stop decision taken after a processed page,  *)
(* the counters being updated for that page, is true exactly when (every   *)
(* record of the page with a parseable date is older than the cutoff AND   *)
(* (page_added = 0 OR consecutive_no_additions >= 1)) OR the signature of  *)
(* the page equals the signature of the page processed before it.          *)
(***************************************************************************)
IsRecord(block) == IsDupefix \/ ~IsTeaser(ReviewText(block))

AllOlderThan(pg, cutoff) ==
    \A i \in 1..Len(pg) :
        (IsRecord(pg[i]) /\ ReviewDate(pg[i]).ok) => ReviewDate(pg[i]).dt < cutoff

C9_Step ==
    (cfg.mode = 2 /\ pc = "decide" /\ pc' = "advance") =>
        (should_stop' <=>
            \/ /\ AllOlderThan(blocks, MonthsCutoff)
               /\ (page_added = 0 \/ consecutive_no_additions' >= 1)
            \/ /\ ~previous_page_signature.isNone
               /\ SignatureOf(blocks) = previous_page_signature.v)

C9_StopDecision == [][C9_Step]_vars

(***************************************************************************)
(* C10: in DateRange(start, end) mode every record appended during the     *)
(* session has start <= date <= end, both days included, and a record      *)
(* whose date is inside the range is never rejected because of its date:   *)
(* after its page it is in the accepted sequence (the mode has no other    *)
(* filter).                                                                *)
(***************************************************************************)
InRange(dt) == strptime(cfg.start_date).dt <= dt /\ dt <= strptime(cfg.end_date).dt

C10_Appended ==
    cfg.mode = 4 =>
        \A k \in (loaded + 1)..Len(reviews) : InRange(DateOf(reviews[k]))

C10_NotRejected ==
    (cfg.mode = 4 /\ pc = "save") =>
        \A i \in 1..Len(blocks) :
            (IsRecord(blocks[i]) /\ ReviewDate(blocks[i]).ok /\ InRange(ReviewDate(blocks[i]).dt))
                => \E k \in 1..Len(reviews) :
                      /\ DateOf(reviews[k]) = ReviewDate(blocks[i]).dt
                      /\ \/ reviews[k] = StoredAs(blocks[i])
                         \/ (reviews[k].link # <<>> /\ reviews[k].link = CanonOf(blocks[i]))

C10_InclusiveRange == C10_Appended /\ C10_NotRejected

\* a page with a record of the first day and one of the last day of the
\* range, both appended
C10_Witness ==
    /\ cfg.mode = 4 /\ pc = "save"
    /\ Len(blocks) = 2 /\ page_added = 2
    /\ {ReviewDate(blocks[i]).dt : i \in 1..2} =
            {strptime(cfg.start_date).dt, strptime(cfg.end_date).dt}

(***************************************************************************)
(* C11: in DateRange mode the loop uses the stop conditions of unbounded   *)
(* PageLimit: after a processed page it stops as soon as the signature of  *)
(* the page repeats the signature of the page processed before it or       *)
(* consecutive_no_additions >= 3.                                          *)
(***************************************************************************)
C11_DateRangeStops ==
    (cfg.mode = 4 /\ pc = "advance") =>
        (should_stop <=>
            \/ same_page_signature_count >= 1
            \/ consecutive_no_additions >= max_consecutive_no_additions)

(***************************************************************************)
(* C12: with the keyword criteria (AND terms, OR terms), a term matching   *)
(* when it occurs in the body as a substring, letter case ignored, a       *)
(* record passes the keyword filter if and only if either there are AND    *)
(* terms and every one of them occurs in the body (the OR terms are then   *)
(* ignored), or there is no AND term and (there is no OR term or at least  *)
(* one OR term occurs in the body).                                        *)
(***************************************************************************)
Occurs(term, body) ==
    \E o \in 0..(Len(body) - Len(term)) :
        \A i \in 1..Len(term) : LowerChar(body[o + i]) = LowerChar(term[i])

KeywordPass(body) ==
    IF keyword_and # <<>>
    THEN \A i \in 1..Len(keyword_and) : Occurs(keyword_and[i], body)
    ELSE keyword_or = <<>> \/ \E i \in 1..Len(keyword_or) : Occurs(keyword_or[i], body)

KeyOf(r) == stable_review_key(r.reviewer, r.date, r.link, r.text)

\* every record appended in the session passes, and after a page every dated
\* record of the page that passes is in the accepted sequence
C12_KeywordFilter ==
    cfg.mode = 3 =>
        /\ \A k \in (loaded + 1)..Len(reviews) : KeywordPass(reviews[k].text)
        /\ pc = "save" =>
              \A i \in 1..Len(blocks) :
                  (IsRecord(blocks[i]) /\ ReviewDate(blocks[i]).ok
                   /\ KeywordPass(ReviewText(blocks[i])))
                      => \E k \in 1..Len(reviews) : KeyOf(reviews[k]) = KeyOf(StoredAs(blocks[i]))

\* a page with a body that has the AND term and none of the OR terms, which
\* was appended, and a body that has an OR term but not the AND term, which
\* was not
C12_Witness ==
    /\ cfg.mode = 3 /\ pc = "save" /\ ~cfg.resume
    /\ keyword_and # <<>> /\ keyword_or # <<>>
    /\ Len(blocks) = 2 /\ page_added = 1 /\ Len(reviews) = 1
    /\ reviews[1] = StoredAs(blocks[1])
    /\ ~(\E i \in 1..Len(keyword_or) : Occurs(keyword_or[i], ReviewText(blocks[1])))
    /\ ReviewDate(blocks[2]).ok
    /\ \E i \in 1..Len(keyword_or) : Occurs(keyword_or[i], ReviewText(blocks[2]))
    /\ ~KeywordPass(ReviewText(blocks[2]))

(***************************************************************************)
(* C13: a record whose date is missing or does not parse is never appended *)
(* to the accepted sequence and never inserted into the dedup set, and it  *)
(* neither raises an error nor stops the page: every later record of the   *)
(* page is still examined.                                                 *)
(***************************************************************************)
\* the block has a <time> element whose datetime, up to the "T", is a date
Dated(block) ==
    block.datetime # NoneStr /\ SplitFirst(block.datetime, "T") \in DOMAIN DateTexts

AddedNow == (Len(reviews) - page_added + 1)..Len(reviews)

C13_UndatedSkipped ==
    pc = "save" =>
        /\ \A k \in AddedNow :
              \E i \in 1..Len(blocks) : Dated(blocks[i]) /\ reviews[k] = StoredAs(blocks[i])
        /\ seen_keys = {KeyOf(reviews[k]) : k \in 1..Len(reviews)}
        /\ \A i, j \in 1..Len(blocks) :
              (i < j /\ ~Dated(blocks[i]) /\ Dated(blocks[j]))
                  => KeyOf(StoredAs(blocks[j])) \in seen_keys

\* a page with an undated block followed by a dated one: only the second
\* was appended
C13_Witness ==
    /\ pc = "save" /\ ~cfg.resume /\ page = 1
    /\ Len(blocks) = 2 /\ ~Dated(blocks[1]) /\ Dated(blocks[2])
    /\ page_added = 1
    /\ reviews = <<StoredAs(blocks[2])>>
    /\ Cardinality(seen_keys) = 1

(***************************************************************************)
(* C14: for every page N of every session, fresh or resumed, whether page  *)
(* N had records, had none or could not be fetched: when the fetch of page *)
(* N+1 is issued, the snapshot of the session holds exactly the accepted   *)
(* sequence as it stood at the end of page N (a snapshot not written yet   *)
(* reads as the empty sequence).                                           *)
(***************************************************************************)
C14_PersistedBeforeNextFetch ==
    (pc = "fetch" /\ page > 1) => load_previous_reviews(snapshot) = reviews

(***************************************************************************)
(* C15: pages are atomic under cancellation: when an interrupt arrives     *)
(* while a page is being processed, the records of the page that were      *)
(* already appended are discarded, so that the snapshot written at         *)
(* termination holds, of the page, either all the records it contributes   *)
(* or none of them.                                                        *)
(***************************************************************************)
\* the accepted sequence before the page in progress
BeforePage == Take(reviews, Len(reviews) - page_added)

\* the accepted sequence once the whole page has been processed
AfterPage ==
    ProcessBlocks([reviews |-> BeforePage,
                   seen |-> {KeyOf(BeforePage[k]) : k \in 1..Len(BeforePage)},
                   added |-> 0, links |-> <<>>, all_older |-> FALSE],
                  blocks).reviews

C15_AllOrNone ==
    (pc = "done" /\ interrupted /\ blocks # <<>>) =>
        snapshot.reviews \in {BeforePage, AfterPage}

(***************************************************************************)
(* C16: in every reachable state, the states between the file writes of    *)
(* one persist and the states after an interrupt included, the record      *)
(* sequence readable from the snapshot is a complete, well-formed prefix   *)
(* of the accepted sequence in memory.                                     *)
(***************************************************************************)
IsPrefix(s, t) == Len(s) <= Len(t) /\ Take(t, Len(s)) = s

C16_SnapshotIsPrefix ==
    snapshot.exists => (snapshot.parses /\ IsPrefix(snapshot.reviews, reviews))

(***************************************************************************)
(* C17: whenever the loop ends, by a stop decision, at the page limit or   *)
(* by an interrupt at any point of the loop, a final persist is performed: *)
(* at termination the snapshot is the whole accepted sequence, the one     *)
(* scrape_reviews returns.                                                 *)
(***************************************************************************)
C17_Persisted ==
    pc = "done" => (snapshot.exists /\ snapshot.parses /\ snapshot.reviews = reviews)

\* the session ends only through the persist of `finally`
C17_Step == pc' = "done" => (pc = "final_dump" /\ snapshot' = File(reviews'))

C17_FinalPersist == [](C17_Persisted) /\ [][C17_Step]_vars

\* a session interrupted inside its second page, after one of the two
\* blocks of the page was appended: no persist after a page holds the
\* two records the session ends with
C17_Witness ==
    /\ pc = "done" /\ interrupted /\ ~cfg.resume
    /\ page = 2 /\ Len(blocks) = 2 /\ page_added = 1
    /\ Len(reviews) = 2
    /\ snapshot = File(reviews)

(***************************************************************************)
(* The keyer functions called on their own.                                *)
(***************************************************************************)
\* the longest link text handed to canonical_link
MaxLink == 3

\* frames of load_model the interpreter allows on top of each other
RecursionLimit == 4

\* requests served by the sorting app
MaxCalls == 4

\* runs of the dedupe tool on one file
MaxRuns == 2

\* longest list of records given to the dedupe tool
MaxRecords == 3

\* longest keyword list given to the keyword classification
MaxKeywords == 2

\* link texts: path characters, the query and fragment marks, white space
LinkChars == {"a", "/", "?", "#", " "}

LinkTexts == SeqsUpTo(LinkChars, MaxLink) \cup {NoneStr}

\* the configuration of the session that has not started
NoSession == CHOOSE c \in Configs : c.mode = 1 /\ c.variant = "app" /\ c.max_pages.isNone

\* a keyer function is about to be called with one of the argument lists
InitCall(inputs) ==
    /\ InitCfg(SrcPages, NoSession, FALSE, NoPath, NoFile, 2 * Today + 1)
    /\ args \in inputs
    /\ rets = <<>>
    /\ tool = NoTool
    /\ loader = NoLoader

\* canonical_link applied to the argument, then to what it returned
CallCanonicalLink ==
    /\ Len(args) = 1
    /\ Len(rets) < 2
    /\ rets' = Append(rets, canonical_link(IF rets = <<>> THEN args[1] ELSE rets[Len(rets)]))
    /\ UNCHANGED <<args, tool, loader, session>>

SpecCanonical ==
    InitCall({<<x>> : x \in LinkTexts}) /\ [][CallCanonicalLink]_vars

(***************************************************************************)
(* C18: canonical_link is idempotent: applied to its own result it returns *)
(* that result, for every string, the empty string, a string that is only  *)
(* a query or a fragment and a string with surrounding white space         *)
(* included.                                                               *)
(***************************************************************************)
C18_Idempotent == Len(rets) = 2 => rets[2] = rets[1]

\* a link with leading white space and a query mark, applied twice
C18_Witness ==
    /\ args = << <<" ", "a", "?">> >>
    /\ rets = << <<"a">>, <<"a">> >>

\* the argument lists of stable_review_key: reviewers, dates and bodies
\* with and without surrounding white space, links with and without a
\* canonical form
KeyerArgs ==
    {Ann, Strip(Ann), Bob}
    \X {Iso(Today), Iso(Today) \o <<" ">>}
    \X {<<>>, <<" ">>, NoneStr, LinkQ, LinkA, LinkAQ, LinkB}
    \X {TxtOk, <<" ">> \o TxtOk, TxtSlow}

\* stable_review_key applied to the first argument list, then to the second
CallStableReviewKey ==
    /\ Len(args) = 2
    /\ Len(rets) < 2
    /\ LET a == args[Len(rets) + 1]
       IN  rets' = Append(rets, stable_review_key(a[1], a[2], a[3], a[4]))
    /\ UNCHANGED <<args, tool, loader, session>>

SpecKeyer ==
    InitCall(KeyerArgs \X KeyerArgs) /\ [][CallStableReviewKey]_vars

(***************************************************************************)
(* C19: stable_review_key is a function of its four arguments: it returns  *)
(* the link key of canonical_link(link) exactly when that canonical link   *)
(* is not empty, whatever the reviewer, the date and the body, and         *)
(* otherwise a hash key over the trimmed reviewer, date and body; a link   *)
(* key never equals a hash key, and records with different non-empty       *)
(* canonical links get different keys.                                     *)
(***************************************************************************)
IsLinkKey(key) == StartsWith(key, <<"l","i","n","k",":",":">>)

IsHashKey(key) == StartsWith(key, <<"h","a","s","h",":",":">>)

\* the reviewer, the date and the body, trimmed
Trimmed(a) == <<Strip(a[1]), Strip(a[2]), Strip(a[4])>>

C19_KeyOfOne(a, key) ==
    /\ IsLinkKey(key) <=> canonical_link(a[3]) # <<>>
    /\ IsHashKey(key) <=> canonical_link(a[3]) = <<>>
    /\ IsLinkKey(key) => Drop(key, 6) = canonical_link(a[3])

C19_KeysOfTwo(a, b, ka, kb) ==
    LET ca == canonical_link(a[3])
        cb == canonical_link(b[3])
    IN  /\ a = b => ka = kb
        /\ (ca # <<>> /\ cb # <<>>) => (ka = kb <=> ca = cb)
        /\ (ca = <<>> /\ cb = <<>>) => (Trimmed(a) = Trimmed(b) => ka = kb)
        /\ (ca # <<>> /\ cb = <<>>) => ka # kb

C19_KeyFunction ==
    /\ Len(args) = 2 /\ Len(rets) >= 1 => C19_KeyOfOne(args[1], rets[1])
    /\ Len(args) = 2 /\ Len(rets) = 2 =>
            /\ C19_KeyOfOne(args[2], rets[2])
            /\ C19_KeysOfTwo(args[1], args[2], rets[1], rets[2])
            /\ C19_KeysOfTwo(args[2], args[1], rets[2], rets[1])

\* one review linked with and without a query string, under two reviewers
\* and two bodies: one link key
C19_Witness ==
    /\ Len(args) = 2 /\ Len(rets) = 2
    /\ args[1] = <<Ann, Iso(Today), LinkAQ, TxtOk>>
    /\ args[2] = <<Bob, Iso(Today), LinkA, TxtSlow>>
    /\ rets[1] = <<"l","i","n","k",":",":">> \o LinkA
    /\ rets[2] = rets[1]

(***************************************************************************)
(* C20: the signature computed for a page is the sequence of the canonical *)
(* links of the first 20 records of the page in extraction order, with an  *)
(* empty string at the position of every record that has no link.          *)
(***************************************************************************)
\* one entry per block, empty for a block without a link
LinkEntries(pg) == [i \in 1..Len(pg) |-> canonical_link(extract_review_permalink(pg[i]))]

C20_SignatureKeepsPositions ==
    pc = "advance" =>
        previous_page_signature = SomeSig(Take(LinkEntries(blocks), SignatureLinks))

(***************************************************************************)
(* C21: no record with an empty body is ever written to the snapshot: in   *)
(* every session, fresh or resumed, every record of every persisted        *)
(* sequence has a non-empty body.                                          *)
(***************************************************************************)
C21_NoEmptyBody ==
    snapshot.exists => \A k \in 1..Len(snapshot.reviews) : snapshot.reviews[k].text # <<>>

(***************************************************************************)
(* C22: an error raised while a page is extracted (locating the blocks or  *)
(* reading a field of a block) is never fatal: the page is treated as      *)
(* yielding zero records, it counts toward the no-addition streak, and the *)
(* loop continues with the next page.                                      *)
(***************************************************************************)
C22_Step ==
    (pc = "extract" /\ stop_reason' = "error") =>
        /\ pc' = "top"
        /\ page' = page + 1
        /\ reviews' = reviews
        /\ consecutive_no_additions' = consecutive_no_additions + 1

C22_ErrorsNotFatal == [][C22_Step]_vars

(***************************************************************************)
(* C23: a failure of the persist after a page is fatal and propagated:     *)
(* once save_reviews has failed no further page is fetched, and the        *)
(* failure reaches the caller of scrape_reviews instead of being           *)
(* swallowed.                                                              *)
(***************************************************************************)
\* an exception is on its way out: the session is in `finally` or has left
\* scrape_reviews by the exception
C23_Propagating ==
    stop_reason = "error" => pc \in {"finally", "final_dump", "raised"}

C23_Step ==
    /\ (pc \in {"save", "dump"} /\ stop_reason' = "error") => pc' = "finally"
    /\ stop_reason = "error" =>
            /\ stop_reason' = "error"
            /\ requested' = requested
            /\ page' = page
            /\ pc' # "done"

C23_SaveFailureIsFatal == [](C23_Propagating) /\ [][C23_Step]_vars

\* the save after page 1, which added one record, has failed; the save of
\* `finally` succeeded and the exception has left scrape_reviews
C23_Witness ==
    /\ pc = "raised" /\ stop_reason = "error" /\ ~cfg.resume
    /\ requested = <<1>> /\ page = 1
    /\ Len(blocks) = 1 /\ page_added = 1
    /\ snapshot = File(reviews)

(***************************************************************************)
(* C24: when a session is resumed with a snapshot identifier (resume_file) *)
(* that does not exist, the load yields an empty list: the session starts  *)
(* with an empty accepted sequence and an empty dedup set.                 *)
(***************************************************************************)
C24_MissingFileLoadsNothing ==
    (cfg.resume /\ cfg.resume_file.given /\ ~cfg.resume_file.file.exists) =>
        /\ loaded = 0
        /\ (pc = "top" /\ page = 1) => (reviews = <<>> /\ seen_keys = {})

(***************************************************************************)
(* C25: in every mode without a bounded page limit, if from some page on   *)
(* the source returns the same final page forever, or only pages without   *)
(* records, or only fetches that fail on every attempt, the loop           *)
(* eventually terminates.  Checked as a ranking argument over the step     *)
(* that ends the iteration of such a page: the step ends the loop or       *)
(* raises one of the two counters the stopping rules compare with their    *)
(* thresholds; a step that does neither can be repeated forever.           *)
(***************************************************************************)
\* the step ends the iteration of a page of one of the three kinds: the
\* last attempt failed, no block was found, or the page had the signature
\* of the page before it
EndsStalledPage ==
    \/ pc = "fetch" /\ page' # page
    \/ pc = "extract" /\ page' # page
    \/ pc = "advance" /\ same_page_signature_count >= 1

C25_Step ==
    (~Bounded /\ EndsStalledPage) =>
        \/ pc' \in {"finally", "final_dump", "done"}
        \/ consecutive_no_additions' > consecutive_no_additions
        \/ same_page_signature_count' > same_page_signature_count

C25_StalledPagesEndTheLoop == [][C25_Step]_vars

(***************************************************************************)
(* C26: at every page boundary the dedup set is exactly the set of the     *)
(* keys of the records of the accepted sequence: a key is inserted only    *)
(* together with the append of its record, and a record rejected by date   *)
(* parsing or by the filter chain leaves the dedup set and the accepted    *)
(* sequence unchanged.                                                     *)
(***************************************************************************)
\* what the script deduplicates a record on
RecordKey(r) == IF cfg.variant = "original" THEN r.link ELSE KeyOf(r)

C26_DedupSetIsKeySet ==
    pc \in {"top", "save"} =>
        seen_keys = {RecordKey(reviews[k]) : k \in 1..Len(reviews)}

(***************************************************************************)
(* C27: at every point of every session, fresh or resumed from any prior   *)
(* snapshot, no two records of the accepted sequence, and so of any        *)
(* persisted snapshot, have the same record key.                           *)
(***************************************************************************)
DistinctKeys(rs) ==
    \A i, j \in 1..Len(rs) : KeyOf(rs[i]) = KeyOf(rs[j]) => i = j

C27_NoDuplicateKeys ==
    /\ DistinctKeys(reviews)
    /\ (snapshot.exists /\ snapshot.parses) => DistinctKeys(snapshot.reviews)

(***************************************************************************)
(* C28: the accepted sequence is append-only in discovery order: the       *)
(* records loaded on resume come first in their stored order, every later  *)
(* change appends records at the end, one for each block accepted, and no  *)
(* record is removed, reordered or modified; so every persisted snapshot   *)
(* of a session is a prefix of every later snapshot of that session.       *)
(***************************************************************************)
C28_LoadedFirst ==
    /\ loaded <= Len(reviews)
    /\ Take(reviews, loaded) = load_previous_reviews(cfg.prior)

\* a written snapshot is a prefix of the accepted sequence, which only grows
C28_SnapshotBehind ==
    (snapshot.exists /\ snapshot.parses) => IsPrefix(snapshot.reviews, reviews)

C28_Step ==
    /\ IsPrefix(reviews, reviews')
    /\ reviews' # reviews =>
          /\ pc = "extract"
          /\ Len(reviews') = Len(reviews) + page_added'
          /\ page_added' <= Len(blocks')
    /\ (snapshot' # snapshot /\ snapshot'.parses) => snapshot'.reviews = reviews'

C28_AppendOnly == [](C28_LoadedFirst /\ C28_SnapshotBehind) /\ [][C28_Step]_vars

\* the second page of a resumed session has appended a third record behind
\* the two loaded ones, after a first page that added nothing, and is saved
C28_Witness ==
    /\ pc = "decide" /\ cfg.resume /\ loaded = 2 /\ page = 2
    /\ Len(reviews) = 3 /\ page_added = 1 /\ Len(blocks) = 2
    /\ snapshot = File(reviews)

(***************************************************************************)
(* C29: the page cursor starts at 1 in every session, resumed ones         *)
(* included, and increases by exactly 1 in every loop iteration, whether   *)
(* the page was processed, was empty or could not be fetched; so the page  *)
(* numbers 1, 2, 3, ... are requested in order, none is skipped and none   *)
(* is requested again after its retry attempts ended.                      *)
(***************************************************************************)
\* the cursor is one past the pages requested until the page is requested,
\* and on the page requested last until the iteration ends
C29_Cursor ==
    /\ InOrder(requested)
    /\ (pc = "top" \/ (pc = "fetch" /\ outcomes = <<>>)) => page = Len(requested) + 1
    /\ ((pc = "fetch" /\ outcomes # <<>>) \/ pc \in {"extract", "save", "dump", "decide", "advance"})
            => page = Len(requested)
    /\ pc \in {"finally", "final_dump", "done"} => page \in {Len(requested), Len(requested) + 1}

C29_Step ==
    /\ page' \in {page, page + 1}
    /\ (pc # "top" /\ pc' = "top") => page' = page + 1
    /\ (pc = "advance" /\ pc' = "finally" /\ ~interrupted') => page' = page + 1
    /\ requested' # requested => requested' = Append(requested, page)

C29_PagesInOrder == [](C29_Cursor) /\ [][C29_Step]_vars

\* a resumed session is on its third page after one page that could not be
\* fetched and one without blocks, and this page has added a record
C29_Witness ==
    /\ pc = "decide" /\ cfg.resume /\ loaded = 2
    /\ requested = <<1, 2, 3>> /\ page = 3
    /\ zero_streak = 2 /\ consecutive_no_additions = 1
    /\ page_added = 1

(***************************************************************************)
(* C30: in MonthsBack mode the loop stops after the first processed page   *)
(* on which every record with a parseable date is older than the cutoff    *)
(* (such a page adds nothing, all its records being rejected by the cutoff *)
(* filter), so no later page is requested.  Stated on the step that ends   *)
(* the iteration of such a page: it leaves the loop.                       *)
(***************************************************************************)
C30_Step ==
    (cfg.mode = 2 /\ pc = "advance" /\ blocks # <<>>
        /\ AllOlderThan(blocks, MonthsCutoff)) =>
            (pc' = "finally" /\ requested' = requested)

C30_StopsAtFirstOldPage == [][C30_Step]_vars

(***************************************************************************)
(* C31: the hash key is collision-free on its inputs: SHA-256 taken to be  *)
(* injective, two records without link whose triples (trimmed reviewer,    *)
(* date, trimmed body) differ never get the same key, so both are accepted *)
(* when both pass the filters.                                             *)
(***************************************************************************)
\* argument lists of records without a link; a reviewer name and a body may
\* hold any character, the "|" and the text of a date included
HashArgs ==
    {Strip(Ann), Strip(Ann) \o <<"|">> \o Iso(Today)}
    \X {Iso(Today)}
    \X {<<>>, NoneStr}
    \X {TxtOk, Iso(Today) \o <<"|">> \o TxtOk}

SpecHashKey ==
    InitCall(HashArgs \X HashArgs) /\ [][CallStableReviewKey]_vars

C31_HashKeyInjective ==
    (Len(args) = 2 /\ Len(rets) = 2
        /\ canonical_link(args[1][3]) = <<>> /\ canonical_link(args[2][3]) = <<>>
        /\ Trimmed(args[1]) # Trimmed(args[2]))
    => rets[1] # rets[2]

(***************************************************************************)
(* C32: in trustpilot_scraper.py records without a permalink are           *)
(* identified by their own content: several distinct records without link  *)
(* on one page that pass the filters are all accepted, and a record that   *)
(* fails the keyword filter does not keep a later record from being        *)
(* accepted.  After the block loop every dated block without link whose    *)
(* body passes the keyword filter has its record in the accepted sequence. *)
(***************************************************************************)
Linkless(block) == ~TruthyStr(extract_review_permalink(block))

HasRecordOf(block) ==
    \E k \in 1..Len(reviews) :
        /\ reviews[k].reviewer = extract_reviewer_name(block)
        /\ reviews[k].date = strftime(ReviewDate(block).dt)
        /\ reviews[k].text = extract_review_text_dupefix(block)

C32_LinklessByContent ==
    (cfg.variant = "original" /\ pc = "save") =>
        \A i \in 1..Len(blocks) :
            (Linkless(blocks[i]) /\ Dated(blocks[i])
                /\ KeywordPass(extract_review_text_dupefix(blocks[i])))
            => HasRecordOf(blocks[i])

(***************************************************************************)
(* C33: a resumed session in unbounded PageLimit or Keywords mode starts   *)
(* again at page 1, and when each of the first three pages is loaded and   *)
(* yields only records whose keys are in the seeded dedup set, the loop    *)
(* stops after page 3 at the latest, with no new record accepted and       *)
(* without a request of a later page.                                      *)
(***************************************************************************)
\* nothing was accepted in this session and every page that added nothing
\* was a page that could be loaded
OnlySeenSoFar ==
    /\ cfg.resume /\ loaded > 0 /\ StopsAtThree
    /\ Len(reviews) = loaded
    /\ consecutive_no_additions = zero_streak

C34_LimitZeroRequestsNothing ==
    (cfg.mode = 1 /\ cfg.max_pages = SomeInt(0)) =>
        /\ requested = <<>>
        /\ Len(reviews) = loaded
        /\ pc \in {"top", "finally", "final_dump", "done"}

(***************************************************************************)
(* C35: keyword classification: every input keyword becomes exactly one    *)
(* term, an AND term if and only if it starts with "+" or carries the AND  *)
(* operator marker, and an OR term otherwise; the stored AND term is the   *)
(* keyword with the marker removed, so a plain word is always an OR term   *)
(* and is matched unchanged.                                               *)
(***************************************************************************)
\* keywords as the user types them: marked with "+", marked with the word
\* AND, and plain words, some of which hold the letters a, n, d
KeywordTexts ==
    { <<"+","s","l","o","w">>,
      <<"o","n","l","y"," ","A","N","D">>,
      <<"s","l","o","w">>,
      <<"b","r","a","n","d">>,
      <<"H","A","N","D","Y">>,
      <<"c","+","+">>,
      <<" ","o","k"," ">> }

KeywordLists == SeqsUpTo(KeywordTexts, MaxKeywords)

\* the classification of lines 223-232 applied to the keyword list
CallClassify ==
    /\ Len(args) = 1
    /\ rets = <<>>
    /\ rets' = <<KeywordAnd(args[1]), KeywordOr(args[1])>>
    /\ UNCHANGED <<args, tool, loader, session>>

SpecClassify ==
    InitCall({<<ks>> : ks \in KeywordLists}) /\ [][CallClassify]_vars

\* the keyword is one word: no "+" and no blank inside
PlainWord(k) == ~Contains(k, <<"+">>) /\ ~Contains(k, <<" ">>) /\ k # <<"A","N","D">>

\* the operator marker: the word AND next to the word it marks
HasAndMarker(k) == Contains(<<" ">> \o k \o <<" ">>, <<" ","A","N","D"," ">>)

RECURSIVE ExpectedTerms(_, _)
ExpectedTerms(keywords, and) ==
    IF keywords = <<>> THEN <<>>
    ELSE LET k == Strip(keywords[1])
             isAnd == StartsWith(k, <<"+">>) \/ HasAndMarker(k)
         IN  (IF isAnd = and THEN <<k>> ELSE <<>>) \o ExpectedTerms(Tail(keywords), and)

C35_Classification ==
    (Len(args) = 1 /\ Len(rets) = 2) =>
        /\ Len(rets[1]) + Len(rets[2]) = Len(args[1])
        /\ Len(rets[1]) = Len(ExpectedTerms(args[1], TRUE))
        /\ rets[2] = ExpectedTerms(args[1], FALSE)
        /\ \A i \in 1..Len(args[1]) :
              PlainWord(Strip(args[1][i])) =>
                  \E j \in 1..Len(rets[2]) : rets[2][j] = Strip(args[1][i])

(***************************************************************************)
(* dedupe_results.py: the offline tool that removes repeated records from  *)
(* the files of a session.                                                 *)
(***************************************************************************)
\* re.sub(r"\s+", " ", s): every run of white space becomes one blank
RECURSIVE CollapseSpaces(_)
CollapseSpaces(s) ==
    IF s = <<>> THEN <<>>
    ELSE IF IsSpace(s[1])
    THEN <<" ">> \o CollapseSpaces(LStrip(s))
    ELSE <<s[1]>> \o CollapseSpaces(Tail(s))

_normalize_whitespace(text) ==
    IF text = NoneStr THEN <<>> ELSE Lower(CollapseSpaces(Strip(text)))

_canonical_link(link) ==
    IF ~TruthyStr(link) THEN <<>> ELSE Strip(SplitFirst(link, "?"))

_review_key(reviewer, date, link, text) ==
    <<_normalize_whitespace(reviewer), _normalize_whitespace(date), _canonical_link(link),
      _normalize_whitespace(text)>>

\* the loop of _dedupe_records from the state (seen, unique) over records
RECURSIVE DedupeFrom(_, _, _)
DedupeFrom(seen, unique, records) ==
    IF records = <<>> THEN unique
    ELSE LET r   == records[1]
             key == _review_key(r.reviewer, r.date, r.link, r.text)
         IN  IF key \in seen
             THEN DedupeFrom(seen, unique, Tail(records))
             ELSE DedupeFrom(seen \cup {key}, Append(unique, r), Tail(records))

\* a dedupe that keeps the last record of every key
RECURSIVE _dedupe_records_keeping_last(_)
_dedupe_records_keeping_last(records) ==
    IF records = <<>> THEN <<>>
    ELSE LET r    == records[1]
             key  == _review_key(r.reviewer, r.date, r.link, r.text)
             rest == Tail(records)
         IN  (IF \E j \in 1..Len(rest) :
                     _review_key(rest[j].reviewer, rest[j].date, rest[j].link, rest[j].text) = key
              THEN <<>> ELSE <<r>>)
             \o _dedupe_records_keeping_last(rest)

_dedupe_records(records) == DedupeFrom({}, <<>>, records)

\* records of a results file: one review captured three times (with blanks
\* and capitals in the reviewer and the body, with a query string on the
\* link), and two other reviews
StoredRecord(reviewer, date, link, text) ==
    [reviewer |-> reviewer, date |-> date, link |-> link, text |-> text]

ToolRecords ==
    { StoredRecord(Strip(Ann), Iso(Today), LinkA, TxtOk),
      StoredRecord(Ann, Iso(Today), LinkA \o <<"?","p","=","1">>, <<"O","K"," ">>),
      StoredRecord(Bob, Iso(Today), LinkA, TxtOk),
      StoredRecord(Bob, Iso(Today), <<>>, <<"s","o"," "," ","s","l","o","w">>),
      StoredRecord(Bob, Iso(Today), <<>>, <<"s","o"," ","s","l","o","w">>) }

RecordLists == SeqsUpTo(ToolRecords, MaxRecords)

\* _dedupe_records applied to the list, then to what it returned
Call_dedupe_records ==
    /\ Len(args) = 1
    /\ Len(rets) < 2
    /\ rets' = Append(rets, _dedupe_records(IF rets = <<>> THEN args[1] ELSE rets[Len(rets)]))
    /\ UNCHANGED <<args, tool, loader, session>>

SpecDedupeTool ==
    InitCall({<<rs>> : rs \in RecordLists}) /\ [][Call_dedupe_records]_vars

(***************************************************************************)
(* C36: _dedupe_records returns a subsequence of its input that keeps, in  *)
(* the original order, exactly the first occurrence of every review key,   *)
(* and no two records with the same key; applied twice it gives what it    *)
(* gives applied once.                                                     *)
(***************************************************************************)
ToolKey(r) == _review_key(r.reviewer, r.date, r.link, r.text)

\* the positions of the records that no earlier record has the key of
FirstOccurrences(rs) ==
    {i \in 1..Len(rs) : \A j \in 1..(i - 1) : ToolKey(rs[j]) # ToolKey(rs[i])}

\* out is rs cut down to the positions of idx, in the order of rs
IsSelection(out, rs, idx) ==
    /\ Len(out) = Cardinality(idx)
    /\ \E f \in [1..Len(out) -> idx] :
          /\ \A a, b \in 1..Len(out) : a < b => f[a] < f[b]
          /\ \A a \in 1..Len(out) : out[a] = rs[f[a]]

C36_KeepsFirstOccurrences ==
    /\ (Len(args) = 1 /\ Len(rets) >= 1) =>
            /\ IsSelection(rets[1], args[1], FirstOccurrences(args[1]))
            /\ \A a, b \in 1..Len(rets[1]) :
                    ToolKey(rets[1][a]) = ToolKey(rets[1][b]) => a = b
    /\ (Len(args) = 1 /\ Len(rets) = 2) => rets[2] = rets[1]

\* three captures of one review between which the link, the blanks and the
\* capitals differ: the first is kept
C36_Witness ==
    /\ Len(args) = 1 /\ Len(rets) = 2
    /\ Len(args[1]) = 3
    /\ args[1][1] = StoredRecord(Strip(Ann), Iso(Today), LinkA, TxtOk)
    /\ args[1][2] = StoredRecord(Bob, Iso(Today), <<>>, <<"s","o"," "," ","s","l","o","w">>)
    /\ args[1][3] = StoredRecord(Ann, Iso(Today), LinkA \o <<"?","p","=","1">>, <<"O","K"," ">>)
    /\ rets[1] = <<args[1][1], args[1][2]>>

(***************************************************************************)
(* C37: the offline dedupe tool and the scraper agree on record identity:  *)
(* for any two records _review_key gives them the same key if and only if  *)
(* stable_review_key does; two records with the same canonical link are    *)
(* duplicates whatever their reviewer and body, and the tool removes no    *)
(* record from a snapshot the scraper wrote.                               *)
(***************************************************************************)
\* the records of the tool's lists, a capture of the first one with a
\* fragment on its link, and two records without link that differ in the
\* capitals of the reviewer
PairRecords ==
    ToolRecords \cup
    { StoredRecord(Strip(Ann), Iso(Today), LinkA \o <<"#","x">>, TxtOk),
      StoredRecord(Strip(Ann), Iso(Today), <<>>, TxtOk),
      StoredRecord(Lower(Strip(Ann)), Iso(Today), <<>>, TxtOk) }

\* both keyers applied to both records
CallBothKeyers ==
    /\ Len(args) = 2
    /\ rets = <<>>
    /\ rets' = << stable_review_key(args[1].reviewer, args[1].date, args[1].link, args[1].text),
                  stable_review_key(args[2].reviewer, args[2].date, args[2].link, args[2].text),
                  _review_key(args[1].reviewer, args[1].date, args[1].link, args[1].text),
                  _review_key(args[2].reviewer, args[2].date, args[2].link, args[2].text) >>
    /\ UNCHANGED <<args, tool, loader, session>>

SpecBothKeyers ==
    InitCall(PairRecords \X PairRecords) /\ [][CallBothKeyers]_vars

C37_KeyersAgree ==
    (Len(args) = 2 /\ Len(rets) = 4) =>
        /\ (rets[1] = rets[2]) <=> (rets[3] = rets[4])
        /\ (rets[1] # rets[2]) => _dedupe_records(args) = args

(***************************************************************************)
(* dedupe_csv and dedupe_json, which differ in the file format only: read  *)
(* the records, dedupe them, write the backup, open the file for writing,  *)
(* write the records.                                                      *)
(***************************************************************************)
\* a backup that is written on every run
_write_backup_every_run(path, backup_path) == path

\* _write_backup: what path + ".bak" holds afterwards
_write_backup(path, backup_path) == IF ~backup_path.exists THEN path ELSE backup_path

\* a results file with the records of the argument list is about to be
\* given to the tool
InitTool(lists) ==
    /\ InitCfg(SrcPages, NoSession, FALSE, NoPath, NoFile, 2 * Today + 1)
    /\ args \in {<<rs>> : rs \in lists}
    /\ rets = <<>>
    /\ tool = [NoTool EXCEPT !.path = File(args[1])]
    /\ loader = NoLoader

\* the file is read and its records are deduped (a missing file ends the run)
DedupeRead ==
    /\ tool.pc = "idle"
    /\ tool.runs < MaxRuns
    /\ \E backup \in BOOLEAN :
          tool' = IF ~tool.path.exists
                  THEN [tool EXCEPT !.runs = @ + 1]
                  ELSE [tool EXCEPT !.rows = _dedupe_records(tool.path.reviews),
                                    !.backup = backup,
                                    !.backups_on = @ /\ backup,
                                    !.pc = "backup"]
    /\ UNCHANGED <<args, rets, loader, session>>

\* if backup: _write_backup(path)
DedupeBackup ==
    /\ tool.pc = "backup"
    /\ tool' = [tool EXCEPT !.bak = IF tool.backup THEN _write_backup(tool.path, @) ELSE @,
                            !.pc = "open"]
    /\ UNCHANGED <<args, rets, loader, session>>

\* open(path, "w"): the file is empty until the records are written
DedupeOpen ==
    /\ tool.pc = "open"
    /\ tool' = [tool EXCEPT !.path = open_w, !.pc = "write"]
    /\ UNCHANGED <<args, rets, loader, session>>

\* the deduped records are written and the file is closed
DedupeWrite ==
    /\ tool.pc = "write"
    /\ tool' = [tool EXCEPT !.path = File(tool.rows), !.pc = "idle", !.runs = @ + 1]
    /\ UNCHANGED <<args, rets, loader, session>>

NextTool ==
    \/ DedupeRead
    \/ DedupeBackup
    \/ DedupeOpen
    \/ DedupeWrite

SpecBackup == InitTool(RecordLists) /\ [][NextTool]_vars

(***************************************************************************)
(* C38: with backups enabled dedupe_csv and dedupe_json create the .bak    *)
(* copy before they overwrite the file, and a .bak that exists is never    *)
(* overwritten: after any number of dedupe runs on a file its .bak holds   *)
(* the content the file had before the first run.                          *)
(***************************************************************************)
C38_BackupHoldsOriginal ==
    (Len(args) = 1 /\ tool.backups_on) =>
        /\ tool.bak.exists => tool.bak = File(args[1])
        /\ tool.path # File(args[1]) => tool.bak = File(args[1])

C38_Step ==
    (tool.bak.exists /\ tool.backup') => tool.bak' = tool.bak

C38_BackupBeforeOverwrite == [](C38_BackupHoldsOriginal) /\ [][C38_Step]_vars

\* two runs with backups on a file that held a repeated record: the file
\* is deduped, the .bak holds the three records
C38_Witness ==
    /\ tool.runs = 2 /\ tool.pc = "idle" /\ tool.backups_on
    /\ Len(args) = 1 /\ Len(args[1]) = 3
    /\ Len(tool.path.reviews) = 2
    /\ tool.bak = File(args[1])

(***************************************************************************)
(* sortingapp/app/main.py: load_model and semantic_filter.  The process    *)
(* imports the module, which loads the default model, and then serves      *)
(* search and export requests, each of which calls semantic_filter with    *)
(* the model_type of its form.  Whether a construction of a model succeeds *)
(* is the environment's choice at every attempt.                           *)
(***************************************************************************)
\* model_type values of a request: the configured ones and one that is not
RequestTypes == ModelTypes \cup {"turbo"}

\* load_model(t) called on top of the frames of ld: the fallback of lines
\* 109-110, the cache of 112-114, else the frame goes on to construct
load_model(ld, t) ==
    LET model_type == IF t \notin ModelTypes THEN "fast" ELSE t
    IN  IF model_type \in ld.MODEL_CACHE
        THEN [ld EXCEPT !.stack = <<>>, !.model = model_type, !.phase = "loaded"]
        ELSE [ld EXCEPT !.stack = Append(@, model_type), !.phase = "constructing"]

\* the process starts in a state where no model is cached
InitLoader(phases) ==
    /\ InitCfg(SrcPages, NoSession, FALSE, NoPath, NoFile, 2 * Today + 1)
    /\ args = <<>>
    /\ rets = <<>>
    /\ tool = NoTool
    /\ loader \in {[NoLoader EXCEPT !.phase = p] : p \in phases}

\* MODEL = load_model(DEFAULT_MODEL)
ImportModule ==
    /\ loader.phase = "start"
    /\ loader' = load_model([loader EXCEPT !.caller = "import", !.model_type = "fast"], "fast")
    /\ UNCHANGED <<args, rets, tool, session>>

\* a search or export request: semantic_filter calls load_model(model_type)
Request ==
    /\ loader.phase = "serving"
    /\ loader.calls < MaxCalls
    /\ \E t \in RequestTypes :
          loader' = load_model([loader EXCEPT !.caller = "semantic_filter", !.model_type = t,
                                              !.outcome = "none", !.model = "none",
                                              !.calls = @ + 1], t)
    /\ UNCHANGED <<args, rets, tool, session>>

\* SentenceTransformer(...) returns: the model is cached and returned
\* through every frame
ConstructOk ==
    /\ loader.phase = "constructing"
    /\ LET model_type == loader.stack[Len(loader.stack)]
       IN  loader' = [loader EXCEPT !.MODEL_CACHE = @ \cup {model_type},
                                    !.built[model_type] = @ + 1,
                                    !.model = model_type,
                                    !.stack = <<>>,
                                    !.phase = "loaded"]
    /\ UNCHANGED <<args, rets, tool, session>>

\* SentenceTransformer(...) raises: return load_model("fast"), which raises
\* RecursionError through every frame when no frame is left
ConstructFail ==
    /\ loader.phase = "constructing"
    /\ loader' = IF Len(loader.stack) < RecursionLimit
                  THEN load_model(loader, "fast")
                  ELSE [loader EXCEPT !.stack = <<>>, !.outcome = "RecursionError",
                                      !.phase = IF loader.caller = "import"
                                                THEN "dead" ELSE "serving"]
    /\ UNCHANGED <<args, rets, tool, session>>

\* load_model has returned: the import is done, or semantic_filter goes on
\* with config = MODEL_CONFIGS[model_type] and the encoding
Loaded ==
    /\ loader.phase = "loaded"
    /\ loader' = [loader EXCEPT
                    !.phase = "serving",
                    !.outcome = IF loader.caller = "import" THEN "imported"
                                ELSE IF loader.model_type \in ModelTypes THEN "scores"
                                ELSE "KeyError"]
    /\ UNCHANGED <<args, rets, tool, session>>

NextLoader ==
    \/ ImportModule
    \/ Request
    \/ ConstructOk
    \/ ConstructFail
    \/ Loaded

SpecModels == InitLoader({"start"}) /\ [][NextLoader]_vars

(***************************************************************************)
(* C39: a search or export request with a model_type that is not one of    *)
(* the configured types is served with the fast model as fallback:         *)
(* semantic_filter completes and returns scores instead of failing.        *)
(***************************************************************************)
C39_UnknownTypeIsServed ==
    (loader.caller = "semantic_filter" /\ loader.phase = "serving"
        /\ loader.model_type \notin ModelTypes /\ loader.model = "fast")
    => loader.outcome = "scores"

(***************************************************************************)
(* C40: load_model always terminates: for every model type and every       *)
(* pattern of failures of the model construction it returns after a        *)
(* bounded number of construction attempts, with the fast model when the   *)
(* requested one fails to load, and it constructs a model type that loaded *)
(* at most once per process.                                               *)
(***************************************************************************)
C40_LoadModelReturns ==
    /\ loader.outcome # "RecursionError"
    /\ \A t \in ModelTypes : loader.built[t] <= 1
    /\ (loader.phase = "loaded" /\ loader.model # loader.model_type)
            => loader.model = "fast"

====
